---- MODULE Spec2Model ----
(***************************************************************************)
(* Job registry of the scraper (src/job_service.py): admission control,    *)
(* per-job state driven by runner callbacks, terminal reconciliation,      *)
(* retention cleanup and the sliding-window throughput estimator.          *)
(*                                                                         *)
(* Time is an integer clock `now` (time.time() and datetime.utcnow() read  *)
(* the same instant).  A ScrapingJobState is an object on `heap`; the      *)
(* registry `jobs` maps a job id to the handle of the object it holds      *)
(* (0: absent).  Each accepted start_job dispatches one worker thread,     *)
(* whose position is pc[h] for the object h it was started with.           *)
(* lastCall is the outcome of the last call of the public API: the         *)
(* exception it raised ("" when it returned) and the object it returned.   *)
(* tz is the offset of the process's local time from UTC, config the       *)
(* constructor parameters the JobService instance was built with.          *)
(* Events are published outside the registry lock: callbacks[w] holds, for *)
(* worker w, the callbacks its runner has invoked and the events built     *)
(* under the lock and not yet published; emitted is the sequence of events *)
(* socketio.emit has been called with; lock is the thread that holds the  *)
(* registry lock (0: none).                                                *)
(* Optional values are <<>> (None) or <<v>>.                               *)
(*                                                                         *)
(* Duplicate check of the web application (src/app.py): csv holds the      *)
(* output files as check_duplicate_file sees them, duplicate_cache the     *)
(* OrderedDict of the LRUCache (least recently used first),                *)
(* content_hash_cache the dictionary of the fingerprint layer,             *)
(* metadata_cache the dictionary of the pandas layer, dupCall the last     *)
(* check_duplicate_file call, lruLog a log of the calls made on the        *)
(* LRUCache directly and scanCall a call of one scan layer on its own.     *)
(*                                                                         *)
(* Checkpoint store and scraping run (src/main.py): cache_dir holds the    *)
(* record files of CacheManager, files the output CSV files, run the       *)
(* position and locals of the scrape_places call in progress.              *)
(***************************************************************************)
EXTENDS Integers, Sequences, FiniteSets, TLC

\* ---------------------------------------------------------------- bounds
\* Largest clock value explored.
MaxTime == 2
\* Number of start_job calls that may be accepted (objects on the heap).
MaxJobs == 2
\* Job ids 1..NumJobIds may be passed to start_job, get_job, get_preview.
NumJobIds == 2
\* Longest progress_samples buffer explored.
MaxSamples == 2
\* Longest preview buffer the record batches of a run fill.
MaxRecords == 2
\* Largest cumulative count a payload reports.
MaxCount == 3
\* Constructor parameters of JobService (job_service.py:66-70), small values.
\* DefaultMetricsWindow is the default of metrics_window_seconds.
RateLimit == 1
RateLimitWindow == 1
CleanupAfterSeconds == 1
MetricsWindowSeconds == 2
MaxConcurrentJobs == 1
DefaultMetricsWindow == 180

\* ScrapingJobState.recent_records: deque(maxlen=25)
PreviewMaxLen == 25

\* Records delivered beyond the preview capacity, and the largest batch.
ExtraRecords == 2
MaxBatch == 3

\* scrape_places flushes a batch when scraped_in_session % 10 == 0.
FlushEvery == 10
\* Scraping runs explored one after the other, the rows an output file may
\* hold before the first, and the largest target of a run.
MaxRuns == 2
MaxOldRows == 2
MaxTotal == 3

JobIds == 1..NumJobIds
\* Offsets of local time from UTC the process may run under.
TzOffsets == {-1, 0, 2}

None == <<>>
Some(x) == <<x>>
IsSome(o) == o # <<>>
Val(o) == o[1]

Min(a, b) == IF a <= b THEN a ELSE b
Max(a, b) == IF a >= b THEN a ELSE b

RECURSIVE Gcd(_, _)
Gcd(a, b) == IF b = 0 THEN a ELSE Gcd(b, a % b)

\* A non-negative float n/d, kept in lowest terms.
Frac(n, d) == LET g == Gcd(n, d) IN <<n \div g, d \div g>>
Zero == <<0, 1>>

VARIABLES config, now, tz, jobs, job_starts, heap, pc, lastCall, callbacks,
          emitted, cache_dir, files, run, duplicate_cache, content_hash_cache,
          csv, dupCall, lruLog, metadata_cache, scanCall, lock

vars == <<config, now, tz, jobs, job_starts, heap, pc, lastCall, callbacks,
          emitted, cache_dir, files, run, duplicate_cache, content_hash_cache,
          csv, dupCall, lruLog, metadata_cache, scanCall, lock>>

\* Groups of variables: the state of the checkpoint store and of the scraping
\* run (src/main.py), of event publication, of the duplicate check.
\* The state of the duplicate check (src/app.py).
dupVars == <<duplicate_cache, content_hash_cache, csv, dupCall, lruLog, metadata_cache,
             scanCall>>
\* What the checkpoint store and the scraping run leave alone.
regVars == <<config, now, tz, jobs, job_starts, heap, pc, callbacks, emitted, lock, dupVars>>
ckVars == <<cache_dir, files, run>>
\* The published events and what is waiting to be published.
evVars == <<callbacks, emitted>>

Handles == 1..Len(heap)

\* ------------------------------------------------------- ScrapingJobState
\* The object start_job constructs (status and last_update given there).
NewJobState(job_id, total_results, t) ==
    [ job_id |-> job_id,
      total_results |-> total_results,
      status |-> "running",
      progress |-> 0,
      result_count |-> 0,
      error_message |-> None,
      start_time |-> t,
      end_time |-> None,
      throughput_per_minute |-> Zero,
      eta_seconds |-> None,
      elapsed_seconds |-> 0,
      last_update |-> t,
      progress_samples |-> <<>>,
      recent_records |-> <<>> ]

\* datetime.timestamp() of a naive datetime produced by utcnow(): the value
\* is read as local time, so the epoch seconds are off by the UTC offset.
NaiveTimestamp(t) == t - tz

\* ---------------------------------------------------------------- helpers
RECURSIVE DropExpiredEager(_, _)
\* Variant: a submission exactly one window old is already dropped.
DropExpiredEager(starts, now_ts) ==
    IF starts # <<>> /\ now_ts - Head(starts) >= config.rate_limit_window
    THEN DropExpiredEager(Tail(starts), now_ts)
    ELSE starts

\* Variant: no submission time is ever dropped.
DropExpiredNever(starts, now_ts) == starts

RECURSIVE DropExpired(_, _)
\* the while loop of _enforce_rate_limit_locked
DropExpired(starts, now_ts) ==
    IF starts # <<>> /\ now_ts - Head(starts) > config.rate_limit_window
    THEN DropExpired(Tail(starts), now_ts)
    ELSE starts

\* _current_running_jobs_locked
CurrentRunningJobs(reg, hp) ==
    Cardinality({id \in JobIds : reg[id] # 0 /\ hp[reg[id]].status = "running"})

\* the condition of the to_delete comprehension
Expired(job, t) ==
    IsSome(job.end_time) /\ NaiveTimestamp(Val(job.end_time)) < t - config.cleanup_after_seconds

\* Variant: the purge empties the registry.
CleanupEverything(reg, hp, t) == [id \in JobIds |-> 0]

\* _cleanup_finished_jobs_locked
CleanupFinishedJobs(reg, hp, t) ==
    [id \in JobIds |-> IF reg[id] # 0 /\ Expired(hp[reg[id]], t) THEN 0 ELSE reg[id]]

\* ------------------------------------------------------- checkpoint store
\* src/main.py.  A string is a sequence of characters.  cache_dir maps a cache
\* id to the content of <cache_dir>/<id>.json, files maps an output path to
\* the CSV file there (None: no such file).  A CSV file is [old, new, big]:
\* the data rows written before the current scraping run started, the data
\* rows written since, and whether the file is larger than 1 MB.
Queries == { <<"a">>, <<"a", "_", "b">> }
OutputFiles == { <<"c">>, <<"b", "_", "c">> }

\* generate_cache_id: the md5 digest of f"{search_query}_{output_file}"; the
\* digest is taken to be one-to-one on the combined strings that occur.
GenerateCacheId(search_query, output_file) == search_query \o <<"_">> \o output_file

CacheIds == { GenerateCacheId(q, f) : q \in Queries, f \in OutputFiles }

\* datetime.now().isoformat(): the local wall-clock time as text.
IsoFormat(t) == [iso |-> t]

\* json.dump(asdict(cache_data), f)
JsonDump(data) == [json |-> data]

\* A record file whose content json.load or ScrapingCache(**data) rejects.
Garbage == [garbage |-> TRUE]

\* json.load(f) followed by ScrapingCache(**cache_data) succeeds.
Readable(content) == "json" \in DOMAIN content

\* Variant: a record already present is kept.
SaveCacheKeepFirst(dir, search_query, output_file, total_target, scraped_count, last_scraped_index, t) ==
    LET cache_id == GenerateCacheId(search_query, output_file)
    IN  IF dir[cache_id] # None THEN dir
        ELSE [dir EXCEPT ![cache_id] = Some(JsonDump(
                [search_query |-> search_query, output_file |-> output_file,
                 total_target |-> total_target, scraped_count |-> scraped_count,
                 last_scraped_index |-> last_scraped_index,
                 timestamp |-> IsoFormat(t), cache_id |-> cache_id]))]

\* save_cache: the directory after the record of the pair is (re)written.
SaveCache(dir, search_query, output_file, total_target, scraped_count, last_scraped_index, t) ==
    LET cache_id == GenerateCacheId(search_query, output_file)
    IN  [dir EXCEPT ![cache_id] = Some(JsonDump(
            [search_query |-> search_query, output_file |-> output_file,
             total_target |-> total_target, scraped_count |-> scraped_count,
             last_scraped_index |-> last_scraped_index,
             timestamp |-> IsoFormat(t), cache_id |-> cache_id]))]

\* Variant: the record is returned whether or not its output file exists.
LoadCacheUnverified(dir, fs, search_query, output_file) ==
    LET cache_id == GenerateCacheId(search_query, output_file)
    IN  IF dir[cache_id] # None /\ Readable(Val(dir[cache_id]))
        THEN [result |-> Some(Val(dir[cache_id]).json), dir |-> dir]
        ELSE [result |-> None, dir |-> dir]

\* load_cache: what it returns and the directory it leaves.
LoadCache(dir, fs, search_query, output_file) ==
    LET cache_id == GenerateCacheId(search_query, output_file)
    IN  IF dir[cache_id] = None THEN [result |-> None, dir |-> dir]
        ELSE IF ~Readable(Val(dir[cache_id])) THEN [result |-> None, dir |-> dir]
        ELSE LET cache_data == Val(dir[cache_id]).json
             IN  IF fs[cache_data.output_file] # None
                 THEN [result |-> Some(cache_data), dir |-> dir]
                 ELSE [result |-> None, dir |-> [dir EXCEPT ![cache_id] = None]]

\* clear_cache
ClearCache(dir, search_query, output_file) ==
    [dir EXCEPT ![GenerateCacheId(search_query, output_file)] = None]

\* The data rows of a CSV file.
Rows(file) == file.old + file.new

\* get_existing_data_count: the lines of the file less its header line.
GetExistingDataCount(fs, output_file) ==
    IF fs[output_file] = None THEN 0
    ELSE Max(0, (Rows(Val(fs[output_file])) + 1) - 1)

\* get_existing_data_count_lightning: for a file over 1 MB the line count is
\* extrapolated from a 4096-byte window in the middle and is off by e, which
\* depends on the line lengths in the window; smaller files are counted.
GetExistingDataCountLightning(fs, output_file, e) ==
    IF fs[output_file] = None THEN 0
    ELSE LET file == Val(fs[output_file])
             estimated_lines == (Rows(file) + 1) + e
         IN  IF file.big THEN Max(0, estimated_lines - 1)
             ELSE Max(0, (Rows(file) + 1) - 1)

\* A file created by writing n rows.
NewFile(n) == Some([old |-> 0, new |-> n, big |-> FALSE])

\* A file after n rows were appended to it.
Appended(file, n) == Some([Val(file) EXCEPT !.new = @ + n])

\* save_places_to_csv: mode "a" when append, else "w".
SavePlacesToCsv(fs, output_path, places, append) ==
    IF places = 0 THEN fs
    ELSE IF append /\ fs[output_path] # None
    THEN [fs EXCEPT ![output_path] = Appended(@, places)]
    ELSE [fs EXCEPT ![output_path] = NewFile(places)]

\* save_places_to_csv_ultra_fast: creates the file if missing, then appends.
SavePlacesToCsvUltraFast(fs, output_path, places) ==
    IF places = 0 THEN fs
    ELSE IF fs[output_path] # None
    THEN [fs EXCEPT ![output_path] = Appended(@, places)]
    ELSE [fs EXCEPT ![output_path] = NewFile(places)]

\* save_places_to_csv_batch_optimized: mode 'a' if the file exists else 'w'.
SavePlacesToCsvBatchOptimized(fs, output_path, places) ==
    IF places = 0 THEN fs
    ELSE IF fs[output_path] # None
    THEN [fs EXCEPT ![output_path] = Appended(@, places)]
    ELSE [fs EXCEPT ![output_path] = NewFile(places)]

\* No scraping run has started.  last_place is the listing index of the place
\* collected last and written_upto the highest listing index among the
\* records the run has written to the output file (-1: none yet).
IdleRun ==
    [pc |-> "idle", caller |-> "", search_for |-> <<>>, total |-> 0,
     output_path |-> <<>>, ultra_fast_append |-> FALSE, append |-> FALSE,
     is_append_mode |-> FALSE, cache |-> None, start_index |-> 0,
     existing_count |-> 0, resumed |-> FALSE, early |-> FALSE, listings |-> 0,
     idx |-> 0, places |-> 0, scraped_in_session |-> 0, total_scraped |-> 0,
     interrupted |-> FALSE, runs |-> 0, last_place |-> -1, written_upto |-> -1]

\* -------------------------------------------------------- duplicate check
\* src/app.py.  Capacity of the LRU caches explored (_duplicate_cache is built
\* with max_size=200), the number of small file sizes, the number of calls
\* made on an LRUCache directly and the latest modification time of a file.
MaxSize == 2
MaxFileSize == 2
MaxOps == 5
MaxMtime == 1

\* Output paths, business types (strings are sequences of characters) and
\* area lists passed to check_duplicate_file.
DupFiles == { "r.csv" }
BusinessTypes == { <<"C", "a">>, <<"c", "a">>, <<"b">> }
AreaLists == { <<>>, <<"north">> }

\* str.lower()
LowerChar(c) == IF c = "C" THEN "c" ELSE IF c = "A" THEN "a" ELSE IF c = "B" THEN "b" ELSE c
Lower(str) == [i \in DOMAIN str |-> LowerChar(str[i])]

LoweredTypes == { Lower(t) : t \in BusinessTypes }

\* Sizes in bytes of the non-empty files written: small ones, and one above
\* the 1 MB mark at which check_duplicate_file chooses the streaming scan.
FileSizes == { 1200 * k : k \in 1..MaxFileSize }
LargeFileSize == 1024 * 1024 + 1200
Mtimes == 0..MaxMtime

\* What the scan layers derive from a file: newline_count is the number of
\* newlines in the header sample, occurrences[t] the number of occurrences of
\* t in the lower-cased samples, rows the number of data lines, text_columns
\* whether the header has one of the columns the tabular scan searches,
\* matches[t] the number of data lines that contain t, and sixteenth[t] the
\* number of lines read when the sixteenth of them is met (0: there are
\* fewer).
Content(newlines, occ, rows, text_columns, matches, sixteenth) ==
    [ newline_count |-> newlines,
      occurrences |-> [t \in LoweredTypes |-> IF t = <<"c", "a">> THEN occ[1] ELSE occ[2]],
      rows |-> rows,
      text_columns |-> text_columns,
      matches |-> [t \in LoweredTypes |-> IF t = <<"c", "a">> THEN matches[1] ELSE matches[2]],
      sixteenth |-> [t \in LoweredTypes |-> IF t = <<"c", "a">> THEN sixteenth ELSE 0] ]

\* Contents of small files: 50 rows of which 8 or 7 name the type "ca".
Contents ==
    { Content(44, <<4, 0>>, 50, TRUE, <<8, 0>>, 0),
      Content(43, <<4, 3>>, 50, TRUE, <<7, 3>>, 0) }

\* Further contents of small files: a header line only, and rows under a
\* header without any of the searched columns.
PlainContents ==
    { Content(1, <<0, 0>>, 0, TRUE, <<0, 0>>, 0),
      Content(44, <<4, 0>>, 50, FALSE, <<8, 0>>, 0) }

\* Contents of files over 1 MB: 40000 rows, of which 16 (the sixteenth on
\* line 20) or 9 name the type "ca".
LargeContents ==
    { Content(40, <<4, 0>>, 40000, TRUE, <<16, 0>>, 20),
      Content(40, <<4, 0>>, 40000, TRUE, <<9, 0>>, 0) }

\* f"{output_file}:{file_size}:{business_type.lower()}"; the paths hold no
\* colon, so the three parts determine the key.
DuplicateKey(output_file, file_size, business_type) ==
    <<output_file, file_size, Lower(business_type)>>

\* The keys of small files, and the keys of all files.
DupKeys == { <<f, n, t>> : f \in DupFiles, n \in FileSizes, t \in LoweredTypes }
HashKeys == { <<f, n, t>> : f \in DupFiles, n \in FileSizes \cup {LargeFileSize},
                            t \in LoweredTypes }

\* f"{output_file}:{st_size}:{st_mtime}:{business_type.lower()}"
MetadataKey(output_file, file_size, mtime, business_type) ==
    <<output_file, file_size, mtime, Lower(business_type)>>

MetadataKeys == { <<f, n, m, t>> : f \in DupFiles, n \in FileSizes, m \in Mtimes,
                                   t \in LoweredTypes }

\* The keys of an OrderedDict, kept as a sequence of [key, value] entries.
Keys(cache) == { cache[i].key : i \in 1..Len(cache) }

\* self.cache[key]
Lookup(cache, key) == (CHOOSE i \in 1..Len(cache) : cache[i].key = key)

\* OrderedDict.move_to_end(key)
MoveToEnd(cache, key) ==
    SelectSeq(cache, LAMBDA e : e.key # key) \o <<cache[Lookup(cache, key)]>>

\* Variant: a hit leaves the order alone.
LRUGetInPlace(cache, key) ==
    IF key \in Keys(cache)
    THEN [value |-> Some(cache[Lookup(cache, key)].value), cache |-> cache]
    ELSE [value |-> None, cache |-> cache]

\* Variant: every lookup misses.
LRUGetMiss(cache, key) == [value |-> None, cache |-> cache]

\* LRUCache.get: the value returned (None when absent) and the dictionary
\* left.
LRUGet(cache, key) ==
    IF key \in Keys(cache)
    THEN [value |-> Some(cache[Lookup(cache, key)].value), cache |-> MoveToEnd(cache, key)]
    ELSE [value |-> None, cache |-> cache]

\* Variant: nothing is stored.
LRUPutNothing(cache, key, value) == cache

\* LRUCache.put: the dictionary left.
LRUPut(cache, key, value) ==
    IF key \in Keys(cache)
    THEN LET moved == MoveToEnd(cache, key)
         IN  [moved EXCEPT ![Len(moved)] = [key |-> key, value |-> value]]
    ELSE IF Len(cache) >= MaxSize
    THEN Append(Tail(cache), [key |-> key, value |-> value])
    ELSE Append(cache, [key |-> key, value |-> value])

\* Variant: three occurrences are enough.
FingerprintLoose(file_size, content, business_type) ==
    LET sample_size == Min(8192, Max(1024, file_size \div 1000))
        header_len == Min(file_size, sample_size)
        estimated_count ==
            IF content.newline_count > 0
            THEN Max(1, (file_size * content.newline_count) \div header_len)
            ELSE 1
    IN  [ is_duplicate |-> content.occurrences[Lower(business_type)] >= 3
                           /\ estimated_count > 50,
          count |-> Some(estimated_count) ]

\* _check_content_fingerprint past its cache lookup: the header sample is the
\* first sample_size bytes of the file, the row count is estimated from the
\* newlines in it, and the verdict is taken from the occurrences of the
\* lower-cased business type in the lower-cased samples.
Fingerprint(file_size, content, business_type) ==
    LET sample_size == Min(8192, Max(1024, file_size \div 1000))
        header_len == Min(file_size, sample_size)
        estimated_count ==
            IF content.newline_count > 0
            THEN Max(1, (file_size * content.newline_count) \div header_len)
            ELSE 1
        business_occurrences == content.occurrences[Lower(business_type)]
    IN  [ is_duplicate |-> business_occurrences > 3 /\ estimated_count > 50,
          count |-> Some(estimated_count) ]

\* _check_duplicate_streaming when the file can be read: line_count starts at
\* 1 for the header; the scan returns at the sixteenth matching line.  The
\* comparison with line_count * 0.08 is made on integers.
StreamingScan(content, business_type) ==
    LET match_count == content.matches[Lower(business_type)]
        line_count == content.rows + 1
    IN  IF match_count > 15
        THEN [ is_duplicate |-> TRUE,
               count |-> Some(content.sixteenth[Lower(business_type)]) ]
        ELSE [ is_duplicate |-> match_count > 8 /\ match_count * 100 > line_count * 8,
               count |-> Some(Max(line_count - 1, 0)) ]

\* Variant: more than four matching rows are enough.
TabularScanLoose(df, business_type) ==
    LET match_count == df.matches[Lower(business_type)]
        threshold == IF df.total_rows < 50 THEN 30
                     ELSE IF df.total_rows < 200 THEN 15 ELSE 8
    IN  IF ~df.text_columns
        THEN [is_duplicate |-> FALSE, count |-> Some(df.total_rows)]
        ELSE [ is_duplicate |-> match_count * 100 > threshold * df.total_rows
                                /\ match_count > 4,
               count |-> Some(df.total_rows) ]

\* _check_duplicate_in_dataframe_optimized.  A dataframe is [total_rows,
\* text_columns, matches]; match_count / total_rows > threshold is compared
\* in hundredths, on integers (the quotient of two row counts is never within
\* a rounding error of 0.3, 0.15 or 0.08 without being equal to it).
TabularScan(df, business_type) ==
    LET match_count == df.matches[Lower(business_type)]
        threshold == IF df.total_rows < 50 THEN 30
                     ELSE IF df.total_rows < 200 THEN 15 ELSE 8
    IN  IF ~df.text_columns
        THEN [is_duplicate |-> FALSE, count |-> Some(df.total_rows)]
        ELSE [ is_duplicate |-> ( IF df.total_rows > 0
                                  THEN match_count * 100 > threshold * df.total_rows
                                  ELSE 0 > threshold )
                                /\ match_count > 5,
               count |-> Some(df.total_rows) ]

\* pd.read_csv of a file with the given content.
ReadCsv(content) ==
    [ total_rows |-> content.rows, text_columns |-> content.text_columns,
      matches |-> content.matches ]

\* What the open() calls of one check_duplicate_file call do: each of
\* os.path.getsize, the open of the fingerprint layer and the read of the
\* fallback layer succeeds (TRUE) or raises.
IoOutcomes == [getsize : BOOLEAN, fingerprint : BOOLEAN, scan : BOOLEAN]
NoFaults == [getsize |-> TRUE, fingerprint |-> TRUE, scan |-> TRUE]

\* No check_duplicate_file call has been made.
NoDupCall ==
    [ business_type |-> <<>>, areas |-> <<>>, output_file |-> "",
      result |-> [is_duplicate |-> FALSE, count |-> None],
      source |-> "", read |-> FALSE, unchanged |-> FALSE, repeated |-> FALSE,
      raised |-> {}, cleared |-> FALSE ]

\* No scan layer has been called on its own.
NoScanCall == [layer |-> "", input |-> <<>>, called |-> FALSE,
               result |-> [is_duplicate |-> FALSE, count |-> None]]

\* No call has been made on the LRUCache directly.
NoLruLog ==
    [ clock |-> 0, accessed |-> [k \in DupKeys |-> 0], inserted |-> [k \in DupKeys |-> 0],
      op |-> "", key |-> <<>>, evicted |-> None ]

\* The module-level state of src/app.py at import: empty caches; no output
\* file exists yet.
CachesInit ==
    /\ duplicate_cache = <<>>
    /\ content_hash_cache = [k \in HashKeys |-> None]
    /\ metadata_cache = [k \in MetadataKeys |-> None]
    /\ csv = [f \in DupFiles |-> None]
    /\ dupCall = NoDupCall
    /\ lruLog = NoLruLog

DuplicateInit ==
    /\ CachesInit
    /\ scanCall = NoScanCall

\* ------------------------------------------------------------------- Init
\* The parameters JobService is constructed with in the runs explored.
ServiceConfig ==
    [ rate_limit |-> RateLimit,
      rate_limit_window |-> RateLimitWindow,
      cleanup_after_seconds |-> CleanupAfterSeconds,
      metrics_window_seconds |-> MetricsWindowSeconds,
      max_concurrent_jobs |-> MaxConcurrentJobs ]

\* A worker whose runner has invoked no callback yet.
NoCallbacks == [invoked |-> <<>>, pending |-> <<>>]

\* JobService.__init__: an empty registry, no accepted submissions, nothing
\* published.
ServiceInit ==
    /\ now = 0
    /\ lock = 0
    /\ callbacks = [w \in 1..MaxJobs |-> NoCallbacks]
    /\ emitted = <<>>
    /\ jobs = [id \in JobIds |-> 0]
    /\ job_starts = <<>>
    /\ heap = <<>>
    /\ pc = <<>>
    /\ lastCall = [op |-> "none"]

\* The process before any call: the service just built, app.py just
\* imported.
RegistryInit ==
    /\ DuplicateInit
    /\ ServiceInit

Init ==
    /\ RegistryInit
    /\ config = ServiceConfig
    /\ tz \in TzOffsets
    /\ cache_dir = [id \in CacheIds |-> None]
    /\ files = [f \in OutputFiles |-> None]
    /\ run = IdleRun

\* Time passes.
Tick ==
    /\ now < MaxTime
    /\ now' = now + 1
    /\ UNCHANGED <<tz, jobs, job_starts, heap, pc, lastCall>>

\* start_job(job_id, ..., total_results, ...): cleanup, rate limit, concurrency
\* cap, then registration and dispatch of the worker thread.
StartJob(job_id, total_results) ==
    LET cleaned == CleanupFinishedJobs(jobs, heap, now)
        starts == DropExpired(job_starts, now)
    IN  /\ IF Len(starts) >= config.rate_limit
           THEN /\ jobs' = cleaned
                /\ job_starts' = starts
                /\ lastCall' = [op |-> "start_job", job_id |-> job_id,
                                raised |-> "RateLimitExceeded", handle |-> 0,
                                message |-> "Too many scraping jobs started recently"]
                /\ UNCHANGED <<heap, pc>>
           ELSE IF CurrentRunningJobs(cleaned, heap) >= config.max_concurrent_jobs
           THEN /\ jobs' = cleaned
                /\ job_starts' = starts
                /\ lastCall' = [op |-> "start_job", job_id |-> job_id,
                                raised |-> "RateLimitExceeded", handle |-> 0,
                                message |-> "Maximum concurrent scraping jobs in progress"]
                /\ UNCHANGED <<heap, pc>>
           ELSE /\ Len(heap) < MaxJobs
                /\ heap' = Append(heap, NewJobState(job_id, total_results, now))
                /\ jobs' = [cleaned EXCEPT ![job_id] = Len(heap) + 1]
                /\ job_starts' = Append(starts, now)
                /\ pc' = Append(pc, "running")
                /\ lastCall' = [op |-> "start_job", job_id |-> job_id,
                                raised |-> "", handle |-> Len(heap) + 1,
                                message |-> ""]
        /\ UNCHANGED <<now, tz>>

\* ------------------------------------------------------------- estimator
\* Variant: only the newest sample is kept.
PruneKeepNewest(samples) ==
    IF samples = <<>> THEN samples ELSE <<samples[Len(samples)]>>

RECURSIVE PruneProgressSamples(_)
\* _prune_progress_samples_locked: pops from the left while the oldest sample
\* is older than the window before the newest one.
PruneProgressSamples(samples) ==
    IF samples = <<>> THEN samples
    ELSE LET cutoff == samples[Len(samples)][1] - config.metrics_window_seconds
         IN  IF Head(samples)[1] < cutoff
             THEN IF Tail(samples) = <<>> THEN <<>>
                  ELSE PruneProgressSamples(Tail(samples))
             ELSE samples

\* Variant: the per-second rate is stored as the per-minute throughput.
UpdateMetricsPerSecond(job) ==
    LET samples == job.progress_samples
        first == samples[1]
        last == samples[Len(samples)]
        delta_count == last[2] - first[2]
        delta_time == last[1] - first[1]
        remaining == Max(job.total_results - job.result_count, 0)
    IN  IF Len(samples) < 2
        THEN [job EXCEPT !.throughput_per_minute = Zero, !.eta_seconds = None]
        ELSE IF delta_time <= 0 \/ delta_count <= 0
        THEN [job EXCEPT !.throughput_per_minute = Zero, !.eta_seconds = None]
        ELSE [job EXCEPT
                !.throughput_per_minute = Frac(delta_count, delta_time),
                !.eta_seconds = Some(Frac(remaining * delta_time, delta_count))]

\* Variant: the remaining count is not clamped at zero.
UpdateMetricsUnclamped(job) ==
    LET samples == job.progress_samples
        first == samples[1]
        last == samples[Len(samples)]
        delta_count == last[2] - first[2]
        delta_time == last[1] - first[1]
        remaining == job.total_results - job.result_count
    IN  IF Len(samples) < 2
        THEN [job EXCEPT !.throughput_per_minute = Zero, !.eta_seconds = None]
        ELSE IF delta_time <= 0 \/ delta_count <= 0
        THEN [job EXCEPT !.throughput_per_minute = Zero, !.eta_seconds = None]
        ELSE [job EXCEPT
                !.throughput_per_minute = Frac(delta_count * 60, delta_time),
                !.eta_seconds = Some(Frac(remaining * delta_time, delta_count))]

\* _update_metrics_locked: throughput_per_minute and eta_seconds from the
\* oldest and newest retained samples.
UpdateMetrics(job) ==
    LET samples == job.progress_samples
        first == samples[1]
        last == samples[Len(samples)]
        delta_count == last[2] - first[2]
        delta_time == last[1] - first[1]
        remaining == Max(job.total_results - job.result_count, 0)
    IN  IF Len(samples) < 2
        THEN [job EXCEPT !.throughput_per_minute = Zero, !.eta_seconds = None]
        ELSE IF delta_time <= 0 \/ delta_count <= 0
        THEN [job EXCEPT !.throughput_per_minute = Zero, !.eta_seconds = None]
        ELSE [job EXCEPT
                !.throughput_per_minute = Frac(delta_count * 60, delta_time),
                !.eta_seconds = Some(Frac(remaining * delta_time, delta_count))]

\* -------------------------------------------------------------- callbacks
\* The registry entry a callback of worker w reaches: self._jobs.get(job_id)
\* with the job id of the state the worker was started with.
Target(w) == jobs[heap[w].job_id]

\* The assignments of _handle_progress to the job it found.  A payload is
\* [progress, current, timestamp: optional; error_message, status: "" when
\* absent or empty].
ApplyProgress(job, p, t) ==
    LET ts == IF IsSome(p.timestamp) THEN Val(p.timestamp) ELSE t
        count == IF IsSome(p.current) THEN Val(p.current) ELSE job.result_count
    IN  [job EXCEPT
           !.progress = IF IsSome(p.progress) THEN Val(p.progress) ELSE @,
           !.result_count = count,
           !.error_message = IF p.error_message # "" THEN Some(p.error_message) ELSE @,
           !.status = IF p.status # "" THEN p.status
                      ELSE IF @ = "pending" THEN "running" ELSE @,
           !.last_update = ts,
           !.progress_samples = PruneProgressSamples(Append(@, <<ts, count>>))]

\* _handle_progress, invoked by the runner of worker w.
HandleProgress(w, p) ==
    /\ w \in Handles
    /\ pc[w] = "running"
    /\ IF Target(w) = 0
       THEN UNCHANGED heap
       ELSE heap' = [heap EXCEPT ![Target(w)] = ApplyProgress(@, p, now)]
    /\ UNCHANGED <<now, tz, jobs, job_starts, pc, lastCall>>

\* The assignments of _handle_metrics to the job it found.
ApplyMetrics(job, elapsed, t) ==
    UpdateMetrics([job EXCEPT !.elapsed_seconds =
        IF IsSome(elapsed) THEN Val(elapsed)
        ELSE t - NaiveTimestamp(job.start_time)])

\* _handle_metrics, invoked by the runner of worker w; elapsed is the
\* payload's elapsed_seconds (optional).
HandleMetrics(w, elapsed) ==
    /\ w \in Handles
    /\ pc[w] = "running"
    /\ IF Target(w) = 0
       THEN UNCHANGED heap
       ELSE heap' = [heap EXCEPT ![Target(w)] = ApplyMetrics(@, elapsed, now)]
    /\ UNCHANGED <<now, tz, jobs, job_starts, pc, lastCall>>

\* int(total_scraped): a hint is [int |-> n] when int() yields n and
\* [bad |-> TRUE] when it raises TypeError or ValueError.
IntOf(hint) == IF "int" \in DOMAIN hint THEN Some(hint.int) ELSE None

\* Variant: a full buffer refuses the new record.
DequeAppendKeepOldest(dq, x) ==
    IF Len(dq) >= PreviewMaxLen THEN dq ELSE Append(dq, x)

\* deque(maxlen=PreviewMaxLen).append
DequeAppend(dq, x) ==
    IF Len(dq) >= PreviewMaxLen THEN Append(Tail(dq), x) ELSE Append(dq, x)

RECURSIVE DequeExtend(_, _)
\* the for loop of _handle_record_batch
DequeExtend(dq, records) ==
    IF records = <<>> THEN dq
    ELSE DequeExtend(DequeAppend(dq, Head(records)), Tail(records))

\* _handle_record_batch, invoked by the runner of worker w; total_scraped is
\* optional.
HandleRecordBatch(w, records, total_scraped) ==
    /\ w \in Handles
    /\ pc[w] = "running"
    /\ IF records = <<>> \/ Target(w) = 0
       THEN UNCHANGED heap
       ELSE heap' = [heap EXCEPT ![Target(w)] =
                [@ EXCEPT
                   !.recent_records = DequeExtend(@, records),
                   !.result_count =
                        IF IsSome(total_scraped) /\ IsSome(IntOf(Val(total_scraped)))
                        THEN Val(IntOf(Val(total_scraped))) ELSE @]]
    /\ UNCHANGED <<now, tz, jobs, job_starts, pc, lastCall>>

\* ------------------------------------------------------------ _run_job
\* str(result.error): the text of the exception.
StrOf(exc) == exc.message

\* Variant: the result always decides the status.
ReconcileOverwrite(state, success, error, t) ==
    UpdateMetrics(
        [state EXCEPT
           !.end_time = Some(t),
           !.elapsed_seconds = t - state.start_time,
           !.status = IF success THEN "completed" ELSE "failed",
           !.error_message = IF ~success /\ IsSome(error)
                             THEN Some(StrOf(Val(error))) ELSE @])

\* The locked block of _run_job after runner.run returned result =
\* (success, error); error is the optional exception.
Reconcile(state, success, error, t) ==
    UpdateMetrics(
        [state EXCEPT
           !.end_time = Some(t),
           !.elapsed_seconds = t - state.start_time,
           !.status = IF @ \notin {"interrupted", "failed"}
                      THEN IF success THEN "completed" ELSE "failed"
                      ELSE @,
           !.error_message = IF ~success /\ IsSome(error)
                             THEN Some(StrOf(Val(error))) ELSE @])

\* runner.run returns: terminal reconciliation of the worker's own state.
WorkerReturn(w, success, error) ==
    /\ w \in Handles
    /\ pc[w] = "running"
    /\ heap' = [heap EXCEPT ![w] = Reconcile(@, success, error, now)]
    /\ pc' = [pc EXCEPT ![w] = "reconciled"]
    /\ UNCHANGED <<now, tz, jobs, job_starts, lastCall>>

\* The end of _run_job: after the two emits, _cleanup_finished_jobs.
WorkerCleanup(w) ==
    /\ w \in Handles
    /\ pc[w] = "reconciled"
    /\ jobs' = CleanupFinishedJobs(jobs, heap, now)
    /\ pc' = [pc EXCEPT ![w] = "done"]
    /\ UNCHANGED <<now, tz, job_starts, heap, lastCall>>

\* runner_factory() or runner.run raises: nothing in _run_job catches it, the
\* thread ends there.
WorkerRaise(w) ==
    /\ w \in Handles
    /\ pc[w] = "running"
    /\ pc' = [pc EXCEPT ![w] = "raised"]
    /\ UNCHANGED <<now, tz, jobs, job_starts, heap, lastCall>>

\* ------------------------------------------------------------ public reads
\* Variant: the lookup result is returned without the absence check.
GetJobUnchecked(job_id) ==
    /\ lastCall' = [op |-> "get_job", job_id |-> job_id,
                    raised |-> "", handle |-> jobs[job_id]]
    /\ UNCHANGED <<now, tz, jobs, job_starts, heap, pc>>

\* get_job
GetJob(job_id) ==
    /\ lastCall' = IF jobs[job_id] = 0
                   THEN [op |-> "get_job", job_id |-> job_id,
                         raised |-> "JobNotFound", handle |-> 0]
                   ELSE [op |-> "get_job", job_id |-> job_id,
                         raised |-> "", handle |-> jobs[job_id]]
    /\ UNCHANGED <<now, tz, jobs, job_starts, heap, pc>>

\* list(job.recent_records)[-limit:]
LastSlice(records, limit) ==
    LET n == Len(records)
        start == IF limit > 0 THEN Max(n - limit, 0)
                 ELSE IF limit = 0 THEN 0
                 ELSE Min(0 - limit, n)
    IN  SubSeq(records, start + 1, n)

\* The dictionary get_preview returns for a job.
Preview(job, limit) ==
    LET records == LastSlice(job.recent_records, limit)
    IN  [ records |-> records,
          columns |-> IF records # <<>> THEN records[1].columns ELSE <<>>,
          result_count |-> job.result_count,
          progress |-> job.progress,
          total_results |-> job.total_results,
          status |-> job.status ]

\* get_preview
GetPreview(job_id, limit) ==
    /\ lastCall' = IF jobs[job_id] = 0
                   THEN [op |-> "get_preview", job_id |-> job_id, limit |-> limit,
                         raised |-> "JobNotFound", handle |-> 0]
                   ELSE [op |-> "get_preview", job_id |-> job_id, limit |-> limit,
                         raised |-> "", handle |-> jobs[job_id],
                         preview |-> Preview(heap[jobs[job_id]], limit)]
    /\ UNCHANGED <<now, tz, jobs, job_starts, heap, pc>>

\* ------------------------------------------------------------ inputs
NoPayload == [progress |-> None, current |-> None, timestamp |-> None,
              error_message |-> "", status |-> ""]

\* Progress payloads that carry a status and nothing else.
StatusPayloads ==
    {[NoPayload EXCEPT !.status = s] :
        s \in {"", "running", "interrupted", "failed", "completed"}}

\* What runner.run may return: (success, error).
RunResults ==
    { <<TRUE, None>>, <<FALSE, None>>,
      <<FALSE, Some([type |-> "RuntimeError", message |-> "boom"])>> }

\* The runner of worker w has progress to report: the sample buffer it would
\* extend is kept within MaxSamples.
CanProgress(w) ==
    /\ w \in Handles
    /\ Target(w) # 0 => Len(heap[Target(w)].progress_samples) < MaxSamples

\* ------------------------------------------------- lifecycle and admission
\* Callers submit jobs under any id, runners report statuses, return or raise.
Next ==
    /\ UNCHANGED <<config, lock, evVars, ckVars, dupVars>>
    /\ \/ Tick
       \/ \E id \in JobIds : StartJob(id, 2)
       \/ \E w \in Handles, p \in StatusPayloads : CanProgress(w) /\ HandleProgress(w, p)
       \/ \E w \in Handles, r \in RunResults : WorkerReturn(w, r[1], r[2])
       \/ \E w \in Handles : WorkerCleanup(w)
       \/ \E w \in Handles : WorkerRaise(w)

Spec == Init /\ [][Next]_vars

Terminal == {"completed", "failed", "interrupted"}

\* Submissions accepted so far whose submission time lies within the trailing
\* rate-limit window at time t (every object ever registered stays on heap).
AcceptedWithin(t) == {h \in Handles : t - heap[h].start_time <= RateLimitWindow}

\* C1: a start_job made when RateLimit accepted submissions lie within the
\* trailing RateLimitWindow raises RateLimitExceeded; one made when fewer do
\* and fewer than MaxConcurrentJobs registry jobs are running is accepted.
C1_SlidingWindowRateLimit ==
    [][\A id \in JobIds : StartJob(id, 2) =>
          /\ Cardinality(AcceptedWithin(now)) >= RateLimit
                => lastCall'.raised = "RateLimitExceeded"
          /\ ( /\ Cardinality(AcceptedWithin(now)) < RateLimit
               /\ CurrentRunningJobs(jobs, heap) < MaxConcurrentJobs )
                => /\ lastCall'.raised = ""
                   /\ jobs'[id] = Len(heap')
                   /\ heap'[Len(heap')].start_time = now]_vars

\* A submission accepted after more than RateLimit earlier acceptances: the
\* window has elapsed for the earlier ones.
C1_Witness ==
    /\ lastCall.op = "start_job"
    /\ lastCall.raised = ""
    /\ lastCall.handle > RateLimit
    /\ Len(job_starts) <= RateLimit

\* C2: the number of registry jobs with status 'running' never exceeds
\* max_concurrent_jobs.
C2_RunningNeverExceedsCap ==
    CurrentRunningJobs(jobs, heap) <= MaxConcurrentJobs

\* C3: the return of worker w leaves its job with end_time set and a terminal
\* status: a status forced to interrupted or failed is kept, otherwise it is
\* completed on success and failed on failure; a failure's error becomes the
\* error_message.
C3_TerminalReconciliation ==
    [][\A w \in Handles, r \in RunResults : WorkerReturn(w, r[1], r[2]) =>
          /\ IsSome(heap'[w].end_time)
          /\ heap'[w].status \in Terminal
          /\ heap[w].status \in {"interrupted", "failed"}
                => heap'[w].status = heap[w].status
          /\ heap[w].status \notin {"interrupted", "failed"}
                => heap'[w].status = IF r[1] THEN "completed" ELSE "failed"
          /\ (~r[1] /\ IsSome(r[2]))
                => heap'[w].error_message = Some(Val(r[2]).message)]_vars

\* A worker has returned a failure with an error for a job a callback had
\* marked interrupted.
C3_Witness ==
    \E w \in Handles :
        /\ pc[w] = "reconciled"
        /\ heap[w].status = "interrupted"
        /\ heap[w].error_message = Some("boom")
        /\ IsSome(heap[w].end_time)

\* C4: a worker whose runner raised has gone through terminal reconciliation:
\* its job is failed with end_time set.
C4_RaiseIsReconciled ==
    \A w \in Handles :
        pc[w] = "raised" => heap[w].status = "failed" /\ IsSome(heap[w].end_time)

\* C5: for every job in the registry, end_time is set if and only if the status
\* is terminal.
C5_EndTimeIffTerminal ==
    \A id \in JobIds :
        jobs[id] # 0 =>
            (IsSome(heap[jobs[id]].end_time) <=> heap[jobs[id]].status \in Terminal)

\* C6: once a job's status is terminal no step changes it.
C6_TerminalOnce ==
    [][\A h \in Handles :
          heap[h].status \in Terminal => heap'[h].status = heap[h].status]_vars

\* ------------------------------------------------------ counts and metrics
\* Progress payloads of one job's runner: progress, cumulative count and
\* timestamp, each present or not.
CountPayloads ==
    { [NoPayload EXCEPT !.progress = pr, !.current = c, !.timestamp = ts] :
        pr \in {None, Some(50), Some(150)},
        c \in {None} \cup {Some(n) : n \in 0..MaxCount},
        ts \in {None} \cup {Some(t) : t \in 0..MaxTime} }

\* total_scraped hints of a record batch.
Hints == {None} \cup {Some([int |-> n]) : n \in 0..MaxCount} \cup {Some([bad |-> TRUE])}

\* Records a runner delivers.
Records == {[name |-> n, columns |-> <<"name", "phone">>] : n \in 1..2}

\* The runner of worker w has records to deliver: the preview buffer it would
\* extend is kept within MaxRecords.
CanDeliver(w) ==
    /\ w \in Handles
    /\ Target(w) # 0 => Len(heap[Target(w)].recent_records) < MaxRecords

\* One job is submitted; its runner reports counts, metrics and records, then
\* returns.
NextPayload ==
    /\ UNCHANGED <<config, lock, evVars, ckVars, dupVars>>
    /\ \/ heap = <<>> /\ StartJob(1, 2)
       \/ \E w \in Handles, p \in CountPayloads : CanProgress(w) /\ HandleProgress(w, p)
       \/ \E w \in Handles, e \in {None, Some(7)} : HandleMetrics(w, e)
       \/ \E w \in Handles, h \in Hints :
             CanDeliver(w) /\ HandleRecordBatch(w, <<[name |-> 1, columns |-> <<"name", "phone">>]>>, h)
       \/ \E w \in Handles, r \in RunResults : WorkerReturn(w, r[1], r[2])
       \/ \E w \in Handles : WorkerCleanup(w)

SpecPayload == Init /\ [][NextPayload]_vars

\* C7: while a job's status stays 'running' no step lowers its result_count.
C7_ResultCountMonotone ==
    [][\A h \in Handles :
          (heap[h].status = "running" /\ heap'[h].status = "running")
              => heap'[h].result_count >= heap[h].result_count]_vars

\* C8: the stored progress of every job lies in [0,100].
C8_ProgressInRange ==
    \A h \in Handles : heap[h].progress >= 0 /\ heap[h].progress <= 100

\* The estimate expected for a job whose oldest sample is (t0,c0) and newest
\* (t1,c1).
EstimateOf(job) ==
    LET s == job.progress_samples
        t0 == s[1][1]
        c0 == s[1][2]
        t1 == s[Len(s)][1]
        c1 == s[Len(s)][2]
    IN  IF Len(s) >= 2 /\ t1 > t0 /\ c1 > c0
        THEN job.throughput_per_minute = Frac((c1 - c0) * 60, t1 - t0)
        ELSE job.throughput_per_minute = Zero /\ job.eta_seconds = None

\* C10: every run of the estimator (a metrics callback, the worker's return)
\* leaves throughput_per_minute = ((c1-c0)/(t1-t0))*60 for oldest sample
\* (t0,c0) and newest (t1,c1) with t1>t0 and c1>c0, and throughput 0 with no
\* ETA with fewer than 2 samples or c1<=c0 or t1<=t0.
C10_ThroughputEstimate ==
    [][\A w \in Handles :
          /\ (\E e \in {None, Some(7)} : HandleMetrics(w, e)) /\ Target(w) # 0
                => EstimateOf(heap'[Target(w)])
          /\ (\E r \in RunResults : WorkerReturn(w, r[1], r[2]))
                => EstimateOf(heap'[w])]_vars

\* The estimator has produced a positive rate that is not 60 per minute, and
\* an ETA.
C10_Witness ==
    \E h \in Handles :
        /\ Len(heap[h].progress_samples) = 2
        /\ heap[h].throughput_per_minute = <<90, 1>>
        /\ IsSome(heap[h].eta_seconds)

\* The ETA expected for a job from its stored rate: remaining results, clamped
\* at zero, divided by the per-second rate throughput_per_minute / 60.
EtaOf(job) ==
    LET rate == job.throughput_per_minute
        remaining == Max(job.total_results - job.result_count, 0)
    IN  rate[1] > 0 =>
            /\ job.eta_seconds = Some(Frac(remaining * 60 * rate[2], rate[1]))
            /\ Val(job.eta_seconds)[1] >= 0
            /\ job.result_count >= job.total_results => job.eta_seconds = Some(Zero)

\* C11: every run of the estimator that leaves a positive rate leaves
\* eta_seconds = max(total_results - result_count, 0) / (per-second rate):
\* never negative, and 0 once result_count has reached or passed the target.
C11_EtaFromRate ==
    [][\A w \in Handles :
          /\ (\E e \in {None, Some(7)} : HandleMetrics(w, e)) /\ Target(w) # 0
                => EtaOf(heap'[Target(w)])
          /\ (\E r \in RunResults : WorkerReturn(w, r[1], r[2]))
                => EtaOf(heap'[w])]_vars

\* The estimator has left a positive rate and an ETA of 0 for a job whose
\* count has passed its target.
C11_Witness ==
    \E h \in Handles :
        /\ heap[h].throughput_per_minute[1] > 0
        /\ heap[h].result_count > heap[h].total_results
        /\ heap[h].eta_seconds = Some(Zero)

\* ------------------------------------------------------------ public reads
\* Jobs are submitted, deliver records, complete and age out while callers
\* read them.
NextReads ==
    /\ UNCHANGED <<config, lock, evVars, ckVars, dupVars>>
    /\ \/ Tick
       \/ \E id \in JobIds : StartJob(id, 2)
       \/ \E w \in Handles, r \in Records : CanDeliver(w) /\ HandleRecordBatch(w, <<r>>, Some([int |-> 1]))
       \/ \E w \in Handles : WorkerReturn(w, TRUE, None)
       \/ \E w \in Handles : WorkerCleanup(w)
       \/ \E id \in JobIds : GetJob(id)
       \/ \E id \in JobIds, limit \in 1..MaxRecords : GetPreview(id, limit)

SpecReads == Init /\ [][NextReads]_vars

\* C9: a get_job or get_preview call raises JobNotFound exactly when the id is
\* not in the registry; otherwise it returns the registry's job for that id
\* (get_preview: its count, progress, target and status); registry and jobs
\* are left as they were.
C9_JobNotFoundIffAbsent ==
    [][(lastCall' # lastCall /\ lastCall'.op \in {"get_job", "get_preview"}) =>
          /\ (lastCall'.raised = "JobNotFound") <=> (jobs[lastCall'.job_id] = 0)
          /\ jobs[lastCall'.job_id] = 0 => lastCall'.handle = 0
          /\ jobs[lastCall'.job_id] # 0 =>
                /\ lastCall'.raised = ""
                /\ lastCall'.handle = jobs[lastCall'.job_id]
                /\ lastCall'.op = "get_preview" =>
                      LET job == heap[jobs[lastCall'.job_id]]
                      IN  /\ lastCall'.preview.result_count = job.result_count
                          /\ lastCall'.preview.progress = job.progress
                          /\ lastCall'.preview.total_results = job.total_results
                          /\ lastCall'.preview.status = job.status
          /\ jobs' = jobs
          /\ heap' = heap
          /\ job_starts' = job_starts]_vars

\* get_job raised JobNotFound for an id that had been submitted and has been
\* purged since.
C9_Witness ==
    /\ lastCall.op = "get_job"
    /\ lastCall.raised = "JobNotFound"
    /\ \E h \in Handles : heap[h].job_id = lastCall.job_id

\* ---------------------------------------------------------- preview buffer
\* The i-th record a runner delivers; records differ in their keys.
NumberedRecord(i) ==
    [name |-> i,
     columns |-> IF i % 2 = 1 THEN <<"name", "phone">> ELSE <<"name", "address">>]

\* The k records after the first n, as one batch.
NumberedBatch(n, k) == [j \in 1..k |-> NumberedRecord(n + j)]

\* Limits callers pass to get_preview.
PreviewLimits == {0, 1, 2, PreviewMaxLen, PreviewMaxLen + 1}

\* One job is submitted; its runner delivers records r1, r2, ... in batches,
\* each with the cumulative count as total_scraped, while callers read the
\* preview; then it returns.
NextPreview ==
    /\ UNCHANGED <<config, lock, evVars, ckVars, dupVars>>
    /\ \/ heap = <<>> /\ StartJob(1, 2)
       \/ \E w \in Handles, k \in 1..MaxBatch :
             /\ Target(w) # 0
             /\ heap[Target(w)].result_count + k <= PreviewMaxLen + ExtraRecords
             /\ HandleRecordBatch(w, NumberedBatch(heap[Target(w)].result_count, k),
                                  Some([int |-> heap[Target(w)].result_count + k]))
       \/ \E id \in JobIds, limit \in PreviewLimits : GetPreview(id, limit)
       \/ \E w \in Handles : WorkerReturn(w, TRUE, None)
       \/ \E w \in Handles : WorkerCleanup(w)

SpecPreview == Init /\ [][NextPreview]_vars

\* C12: the preview buffer never holds more than PreviewMaxLen records, and
\* after records r1..rn have been delivered it holds exactly the last
\* min(n, PreviewMaxLen) of them in arrival order.
C12_PreviewKeepsLast ==
    \A h \in Handles :
        LET n == heap[h].result_count
            m == Min(n, PreviewMaxLen)
        IN  /\ Len(heap[h].recent_records) <= PreviewMaxLen
            /\ heap[h].recent_records = [i \in 1..m |-> NumberedRecord(n - m + i)]

\* More records than the buffer holds have been delivered: r1 and r2 are
\* gone and the newest record is last.
C12_Witness ==
    \E h \in Handles :
        /\ heap[h].result_count = PreviewMaxLen + ExtraRecords
        /\ Len(heap[h].recent_records) = PreviewMaxLen
        /\ heap[h].recent_records[1].name = ExtraRecords + 1
        /\ heap[h].recent_records[PreviewMaxLen].name = PreviewMaxLen + ExtraRecords

\* C13: for every limit >= 0 get_preview returns exactly the last
\* min(limit, buffered) records of the buffer, oldest first and never more
\* than limit, with columns the keys of the first returned record, or empty
\* when no record is returned.
C13_PreviewLastLimit ==
    [][(lastCall' # lastCall /\ lastCall'.op = "get_preview" /\ lastCall'.raised = "") =>
          LET limit == lastCall'.limit
              buf == heap[lastCall'.handle].recent_records
              m == Min(limit, Len(buf))
              got == lastCall'.preview
          IN  /\ Len(got.records) <= limit
              /\ got.records = SubSeq(buf, Len(buf) - m + 1, Len(buf))
              /\ got.columns = IF got.records = <<>> THEN <<>>
                               ELSE got.records[1].columns]_vars

\* ---------------------------------------------------------------- retention
\* C20: after every admission check (start_job) and every job completion (the
\* worker's cleanup) the registry holds no job whose end_time is older than
\* CleanupAfterSeconds; and no step removes a job that has no end_time.
C20_RetentionAfterCleanup ==
    [][/\ ((\E id \in JobIds : StartJob(id, 2)) \/ (\E w \in Handles : WorkerCleanup(w)))
            => \A id \in JobIds :
                  (jobs'[id] # 0 /\ IsSome(heap'[jobs'[id]].end_time))
                      => now' - Val(heap'[jobs'[id]].end_time) <= CleanupAfterSeconds
       /\ \A id \in JobIds :
              (jobs[id] # 0 /\ ~IsSome(heap[jobs[id]].end_time)) => jobs'[id] # 0]_vars

\* C21: a job whose end_time is set is purged from the registry only when at
\* least CleanupAfterSeconds have passed on the clock since that end_time,
\* whatever the offset of local time from UTC.
C21_NeverPurgedEarly ==
    [][\A id \in JobIds :
          (jobs[id] # 0 /\ IsSome(heap[jobs[id]].end_time) /\ jobs'[id] = 0)
              => now' - Val(heap[jobs[id]].end_time) >= CleanupAfterSeconds]_vars

\* ------------------------------------------------- checkpoint store calls
\* (total_target, scraped_count, last_scraped_index) triples callers save.
CheckpointFields == { <<2, 1, 0>>, <<2, 2, 1>> }

\* A call of save_cache; the record's timestamp is the local time.
SaveCacheCall(search_query, output_file, total_target, scraped_count, last_scraped_index) ==
    /\ cache_dir' = SaveCache(cache_dir, search_query, output_file, total_target,
                              scraped_count, last_scraped_index, now + tz)
    /\ lastCall' = [op |-> "save_cache", search_query |-> search_query,
                    output_file |-> output_file, total_target |-> total_target,
                    scraped_count |-> scraped_count,
                    last_scraped_index |-> last_scraped_index, raised |-> "",
                    result |-> Some(GenerateCacheId(search_query, output_file))]
    /\ UNCHANGED <<files, run>>
    /\ UNCHANGED regVars

\* A call of load_cache; removed tells whether it deleted the record file.
LoadCacheCall(search_query, output_file) ==
    LET loaded == LoadCache(cache_dir, files, search_query, output_file)
    IN  /\ cache_dir' = loaded.dir
        /\ lastCall' = [op |-> "load_cache", search_query |-> search_query,
                        output_file |-> output_file, raised |-> "",
                        result |-> loaded.result,
                        removed |-> (loaded.dir # cache_dir)]
        /\ UNCHANGED <<files, run>>
        /\ UNCHANGED regVars

\* A call of clear_cache.
ClearCacheCall(search_query, output_file) ==
    /\ cache_dir' = ClearCache(cache_dir, search_query, output_file)
    /\ lastCall' = [op |-> "clear_cache", search_query |-> search_query,
                    output_file |-> output_file, raised |-> "", result |-> None]
    /\ UNCHANGED <<files, run>>
    /\ UNCHANGED regVars

\* An output file comes into existence (a scraper wrote a row to it).
OutputCreated(output_file) ==
    /\ files[output_file] = None
    /\ files' = [files EXCEPT ![output_file] = NewFile(1)]
    /\ UNCHANGED <<cache_dir, run, lastCall>>
    /\ UNCHANGED regVars

\* The user deletes an output file.
OutputDeleted(output_file) ==
    /\ files[output_file] # None
    /\ files' = [files EXCEPT ![output_file] = None]
    /\ UNCHANGED <<cache_dir, run, lastCall>>
    /\ UNCHANGED regVars

\* The cache directory holds, for some ids, record files left unreadable by
\* an earlier crash; no output file exists yet.
InitCache ==
    /\ RegistryInit
    /\ config = ServiceConfig
    /\ tz = 0
    /\ cache_dir \in [CacheIds -> {None, Some(Garbage)}]
    /\ files = [f \in OutputFiles |-> None]
    /\ run = IdleRun

\* Callers save, load and clear checkpoints of any pair while output files
\* come and go.
NextCache ==
    \/ \E q \in Queries, f \in OutputFiles, c \in CheckpointFields :
          SaveCacheCall(q, f, c[1], c[2], c[3])
    \/ \E q \in Queries, f \in OutputFiles : LoadCacheCall(q, f)
    \/ \E q \in Queries, f \in OutputFiles : ClearCacheCall(q, f)
    \/ \E f \in OutputFiles : OutputCreated(f)
    \/ \E f \in OutputFiles : OutputDeleted(f)

SpecCache == InitCache /\ [][NextCache]_vars

\* C16: load_cache returns a checkpoint only if the output file the record
\* references exists; when the record is readable and that file is missing
\* it deletes the record and returns nothing; an unreadable record yields
\* nothing and no exception.
C16_LoadOnlyWithOutput ==
    [][\A q \in Queries, f \in OutputFiles :
          LoadCacheCall(q, f) =>
              LET rec == cache_dir[GenerateCacheId(q, f)]
                  got == lastCall'.result
              IN  /\ lastCall'.raised = ""
                  /\ got # None =>
                        /\ rec # None /\ Readable(Val(rec))
                        /\ Val(got) = Val(rec).json
                        /\ files[Val(got).output_file] # None
                  /\ (rec # None /\ Readable(Val(rec))
                         /\ files[Val(rec).json.output_file] = None) =>
                        /\ got = None
                        /\ cache_dir'[GenerateCacheId(q, f)] = None
                  /\ (rec # None /\ ~Readable(Val(rec))) => got = None]_vars

\* load_cache found a record whose output file was gone and deleted it.
C16_Witness ==
    /\ lastCall.op = "load_cache"
    /\ lastCall.removed
    /\ lastCall.result = None
    /\ cache_dir[GenerateCacheId(lastCall.search_query, lastCall.output_file)] = None

\* C18: a load_cache that follows a save_cache of the same (query, output)
\* pair while the output file exists returns exactly the saved query, output
\* path, target, scraped count and last index (so of two saves the later one
\* is returned); a load_cache that follows a clear_cache of the pair returns
\* nothing.
C18_SaveLoadRoundTrip ==
    [][\A q \in Queries, f \in OutputFiles :
          LoadCacheCall(q, f) =>
              /\ ( /\ lastCall.op = "save_cache"
                   /\ lastCall.search_query = q
                   /\ lastCall.output_file = f
                   /\ files[f] # None )
                    => /\ lastCall'.result # None
                       /\ Val(lastCall'.result).search_query = q
                       /\ Val(lastCall'.result).output_file = f
                       /\ Val(lastCall'.result).total_target = lastCall.total_target
                       /\ Val(lastCall'.result).scraped_count = lastCall.scraped_count
                       /\ Val(lastCall'.result).last_scraped_index = lastCall.last_scraped_index
              /\ ( /\ lastCall.op = "clear_cache"
                   /\ lastCall.search_query = q
                   /\ lastCall.output_file = f )
                    => lastCall'.result = None]_vars

\* load_cache returned the checkpoint saved for its own pair, the one with
\* scraped count 2.
C18_Witness ==
    /\ lastCall.op = "load_cache"
    /\ lastCall.result # None
    /\ Val(lastCall.result).search_query = lastCall.search_query
    /\ Val(lastCall.result).output_file = lastCall.output_file
    /\ Val(lastCall.result).scraped_count = 2

\* ---------------------------------------------------------- scraping runs
\* Deviations of the sampled row estimate of a file over 1 MB.
EstimateErrors == {-1, 0, 1}

\* Targets a run is started with.
Totals == 1..MaxTotal

\* The target of a long run, one whose session passes FlushEvery places.
LongTotal == FlushEvery + 1

\* Numbers of listings the results page may show.
ListingCounts == (0..MaxTotal) \cup {LongTotal}

\* The files as a starting run finds them: every row is an earlier run's.
AtRunStart(fs) ==
    [f \in OutputFiles |->
        IF fs[f] = None THEN None
        ELSE Some([Val(fs[f]) EXCEPT !.old = Rows(Val(fs[f])), !.new = 0])]

\* scrape_places up to its try block: the checkpoint loaded, the count
\* measured and the resume decision.
ScrapePlacesEntry(dir, fs, search_for, total, output_path, ultra_fast_append, e) ==
    LET loaded == LoadCache(dir, fs, search_for, output_path)
        cache == loaded.result
        existing_count ==
            IF ultra_fast_append
            THEN GetExistingDataCountLightning(fs, output_path, e)
            ELSE GetExistingDataCount(fs, output_path)
        resume == cache # None /\ existing_count >= Val(cache).scraped_count
    IN  [ dir |-> loaded.dir,
          cache |-> cache,
          existing_count |-> existing_count,
          resumed |-> resume,
          start_index |-> IF resume THEN Val(cache).last_scraped_index + 1 ELSE 0,
          is_append_mode |-> resume \/ fs[output_path] # None \/ ultra_fast_append,
          early |-> resume /\ Val(cache).scraped_count >= total ]

\* Variant: a resumed run starts again at index 0.
BeginRunFromZero(caller, search_for, total, output_path, append, ultra_fast_append, e) ==
    LET entry == ScrapePlacesEntry(cache_dir, files, search_for, total, output_path,
                                   ultra_fast_append, e)
    IN  /\ cache_dir' = entry.dir
        /\ files' = AtRunStart(files)
        /\ run' = [IdleRun EXCEPT
                     !.pc = IF entry.early THEN "returned" ELSE "browsing",
                     !.caller = caller, !.search_for = search_for, !.total = total,
                     !.output_path = output_path, !.append = append,
                     !.ultra_fast_append = ultra_fast_append,
                     !.is_append_mode = entry.is_append_mode,
                     !.cache = entry.cache, !.start_index = 0,
                     !.existing_count = entry.existing_count,
                     !.resumed = entry.resumed, !.early = entry.early,
                     !.runs = run.runs + 1]

\* A call of scrape_places by `caller`, up to the try block.
BeginRun(caller, search_for, total, output_path, append, ultra_fast_append, e) ==
    LET entry == ScrapePlacesEntry(cache_dir, files, search_for, total, output_path,
                                   ultra_fast_append, e)
    IN  /\ cache_dir' = entry.dir
        /\ files' = AtRunStart(files)
        /\ run' = [IdleRun EXCEPT
                     !.pc = IF entry.early THEN "returned" ELSE "browsing",
                     !.caller = caller, !.search_for = search_for, !.total = total,
                     !.output_path = output_path, !.append = append,
                     !.ultra_fast_append = ultra_fast_append,
                     !.is_append_mode = entry.is_append_mode,
                     !.cache = entry.cache, !.start_index = entry.start_index,
                     !.existing_count = entry.existing_count,
                     !.resumed = entry.resumed, !.early = entry.early,
                     !.runs = run.runs + 1]

\* No run is in progress and another may start.
CanStart ==
    /\ run.runs < MaxRuns
    /\ \/ run.pc \in {"idle", "exited", "submitted"}
       \/ run.pc = "returned" /\ run.caller = "scrape_places"

\* scrape_places called directly (as the job runner does).
ScrapePlacesStart(search_for, total, output_path, ultra_fast_append, e) ==
    /\ CanStart
    /\ BeginRun("scrape_places", search_for, total, output_path, FALSE,
                ultra_fast_append, e)
    /\ UNCHANGED lastCall
    /\ UNCHANGED regVars

\* main(): the flags, the checkpoint probe that forces append and ultra-fast,
\* then scrape_places.  The probe's load_cache leaves the directory that the
\* one inside scrape_places would leave.
MainStart(search_for, total, output_path, append, ultra_fast, e) ==
    LET cache == LoadCache(cache_dir, files, search_for, output_path).result
    IN  /\ CanStart
        /\ BeginRun("main", search_for, total, output_path,
                    append \/ cache # None,
                    ultra_fast \/ append \/ cache # None, e)
        /\ UNCHANGED lastCall
        /\ UNCHANGED regVars

\* start_scraping of the web application, up to the submission of the job:
\* the checkpoint is loaded, compared with the measured count, and cleared
\* when it is ahead of the file.
AppStartScraping(search_query, total_results, output_file, append_mode, fast_append, e) ==
    LET loaded == LoadCache(cache_dir, files, search_query, output_file)
        cache == loaded.result
        existing_count ==
            IF fast_append
            THEN GetExistingDataCountLightning(files, output_file, e)
            ELSE GetExistingDataCount(files, output_file)
        resume == cache # None /\ existing_count >= Val(cache).scraped_count
    IN  /\ CanStart
        /\ cache_dir' = IF cache # None /\ ~resume
                        THEN ClearCache(loaded.dir, search_query, output_file)
                        ELSE loaded.dir
        /\ files' = AtRunStart(files)
        /\ run' = [IdleRun EXCEPT
                     !.pc = "submitted", !.caller = "app",
                     !.search_for = search_query, !.total = total_results,
                     !.output_path = output_file,
                     !.append = append_mode \/ resume \/ fast_append,
                     !.ultra_fast_append = fast_append,
                     !.cache = cache,
                     !.existing_count = IF cache # None THEN existing_count ELSE 0,
                     !.resumed = resume,
                     !.runs = run.runs + 1]
        /\ UNCHANGED lastCall
        /\ UNCHANGED regVars

\* The page shows n listings, cut to the target; a resumed run skips the
\* first start_index of them.
FoundListings(n) ==
    /\ run.pc = "browsing"
    /\ n <= run.total
    /\ run' = [run EXCEPT !.pc = "loop",
                          !.listings = Max(n - run.start_index, 0),
                          !.idx = 0, !.scraped_in_session = 0,
                          !.total_scraped = run.existing_count]
    /\ UNCHANGED <<cache_dir, files, lastCall>>
    /\ UNCHANGED regVars

\* No results, no listings or a page error: scrape_places returns no places.
BrowseFailed ==
    /\ run.pc = "browsing"
    /\ run' = [run EXCEPT !.pc = "returned", !.places = 0]
    /\ UNCHANGED <<cache_dir, files, lastCall>>
    /\ UNCHANGED regVars

\* The flush of scrape_places: one of the three save functions by mode.
Flush(fs, r, places) ==
    IF r.is_append_mode /\ r.ultra_fast_append
    THEN SavePlacesToCsvBatchOptimized(fs, r.output_path, places)
    ELSE IF r.is_append_mode
    THEN SavePlacesToCsvUltraFast(fs, r.output_path, places)
    ELSE SavePlacesToCsv(fs, r.output_path, places, FALSE)

\* One pass of the loop in which the place has a name: it is collected and,
\* on every FlushEvery-th place of the session or when the listing's index
\* equals len(listings) - 1, the batch is saved and the checkpoint written.
ListingScraped ==
    LET actual_idx == run.start_index + run.idx
        scraped_in_session == run.scraped_in_session + 1
        total_scraped == run.total_scraped + 1
        flush == scraped_in_session % FlushEvery = 0 \/ actual_idx = run.listings - 1
    IN  /\ run.pc = "loop"
        /\ run.idx < run.listings
        /\ files' = IF flush THEN Flush(files, run, run.places + 1) ELSE files
        /\ cache_dir' = IF flush
                        THEN SaveCache(cache_dir, run.search_for, run.output_path,
                                       run.total, total_scraped, actual_idx, now + tz)
                        ELSE cache_dir
        /\ run' = [run EXCEPT
                     !.idx = @ + 1,
                     !.scraped_in_session = scraped_in_session,
                     !.total_scraped = total_scraped,
                     !.places = IF flush THEN 0 ELSE @ + 1,
                     !.is_append_mode = IF flush THEN TRUE ELSE @,
                     !.last_place = actual_idx,
                     !.written_upto = IF flush THEN actual_idx ELSE @]
        /\ UNCHANGED lastCall
        /\ UNCHANGED regVars

\* One pass of the loop in which the details do not load, the place has no
\* name or an Exception is swallowed.
ListingSkipped ==
    /\ run.pc = "loop"
    /\ run.idx < run.listings
    /\ run' = [run EXCEPT !.idx = @ + 1]
    /\ UNCHANGED <<cache_dir, files, lastCall>>
    /\ UNCHANGED regVars

\* KeyboardInterrupt in a pass of the loop: the collected places are saved,
\* the checkpoint is written and the (uncleared) list is returned.
ListingInterrupted ==
    LET actual_idx == run.start_index + run.idx
    IN  /\ run.pc = "loop"
        /\ run.idx < run.listings
        /\ files' = Flush(files, run, run.places)
        /\ cache_dir' = SaveCache(cache_dir, run.search_for, run.output_path,
                                  run.total, run.total_scraped, actual_idx, now + tz)
        /\ run' = [run EXCEPT !.pc = "returned", !.interrupted = TRUE,
                              !.written_upto = IF run.places > 0
                                               THEN run.last_place ELSE @]
        /\ UNCHANGED lastCall
        /\ UNCHANGED regVars

\* The loop is over: the checkpoint is cleared if the cumulative count has
\* reached the target, and the unsaved places are returned.
LoopFinished ==
    /\ run.pc = "loop"
    /\ run.idx = run.listings
    /\ cache_dir' = IF run.total_scraped >= run.total
                    THEN ClearCache(cache_dir, run.search_for, run.output_path)
                    ELSE cache_dir
    /\ run' = [run EXCEPT !.pc = "returned"]
    /\ UNCHANGED <<files, lastCall>>
    /\ UNCHANGED regVars

\* main() after scrape_places returned: the places it got are saved.
MainFinish ==
    /\ run.pc = "returned"
    /\ run.caller = "main"
    /\ files' = IF run.ultra_fast_append
                THEN SavePlacesToCsvBatchOptimized(files, run.output_path, run.places)
                ELSE SavePlacesToCsv(files, run.output_path, run.places, run.append)
    /\ run' = [run EXCEPT !.pc = "exited",
                          !.written_upto = IF run.places > 0
                                           THEN Max(@, run.last_place) ELSE @]
    /\ UNCHANGED <<cache_dir, lastCall>>
    /\ UNCHANGED regVars

\* One output path, which may hold rows of earlier scrapes and be over 1 MB;
\* no checkpoint yet.
InitCheckpoint ==
    /\ RegistryInit
    /\ config = ServiceConfig
    /\ tz = 0
    /\ cache_dir = [id \in CacheIds |-> None]
    /\ \E file \in {None} \cup { Some([old |-> 0, new |-> n, big |-> b]) :
                                   n \in 1..MaxOldRows, b \in BOOLEAN } :
          files = [f \in OutputFiles |-> IF f = <<"c">> THEN file ELSE None]
    /\ run = IdleRun

\* Runs for one (query, output) pair follow one another, started from the
\* command line, by a direct call (which may be a long run) or through the
\* web application.
NextCheckpoint ==
    \/ \E total \in Totals \cup {LongTotal}, ultra \in BOOLEAN, e \in EstimateErrors :
          ScrapePlacesStart(<<"a">>, total, <<"c">>, ultra, e)
    \/ \E total \in Totals, append \in BOOLEAN, ultra \in BOOLEAN, e \in EstimateErrors :
          MainStart(<<"a">>, total, <<"c">>, append, ultra, e)
    \/ \E total \in Totals, append \in BOOLEAN, fast \in BOOLEAN, e \in EstimateErrors :
          AppStartScraping(<<"a">>, total, <<"c">>, append, fast, e)
    \/ \E n \in ListingCounts : FoundListings(n)
    \/ BrowseFailed
    \/ ListingScraped
    \/ ListingSkipped
    \/ ListingInterrupted
    \/ LoopFinished
    \/ MainFinish

SpecCheckpoint == InitCheckpoint /\ [][NextCheckpoint]_vars

\* The checkpoint record file of the current run's pair.
RunRecord(dir) == dir[GenerateCacheId(run.search_for, run.output_path)]

StaleAtStart(r) == r.cache # None /\ Val(r.cache).scraped_count > r.existing_count

\* C15: a run start that loads a checkpoint whose scraped_count exceeds the
\* measured count leaves no record of it, starts at index 0, and turns append
\* on only if the caller asked for append (or ultra-fast append).
C15_StaleCheckpointDiscarded ==
    [][\A total \in Totals \cup {LongTotal}, append \in BOOLEAN, ultra \in BOOLEAN,
          e \in EstimateErrors :
          /\ (MainStart(<<"a">>, total, <<"c">>, append, ultra, e) /\ StaleAtStart(run'))
                => /\ cache_dir'[GenerateCacheId(<<"a">>, <<"c">>)] = None
                   /\ run'.start_index = 0
                   /\ run'.append => (append \/ ultra)
          /\ (ScrapePlacesStart(<<"a">>, total, <<"c">>, ultra, e) /\ StaleAtStart(run'))
                => /\ cache_dir'[GenerateCacheId(<<"a">>, <<"c">>)] = None
                   /\ run'.start_index = 0
          /\ (AppStartScraping(<<"a">>, total, <<"c">>, append, ultra, e) /\ StaleAtStart(run'))
                => /\ cache_dir'[GenerateCacheId(<<"a">>, <<"c">>)] = None
                   /\ run'.start_index = 0
                   /\ run'.append => (append \/ ultra)]_vars

\* C17: when scrape_places has returned, uninterrupted, with the cumulative
\* count at or beyond the target (the loaded checkpoint's count for a run
\* that found it already there), no checkpoint record of the pair exists.
C17_NoCheckpointAtTarget ==
    ( /\ run.pc \in {"returned", "exited"}
      /\ ~run.interrupted
      /\ \/ run.early /\ Val(run.cache).scraped_count >= run.total
         \/ ~run.early /\ run.total_scraped >= run.total )
        => RunRecord(cache_dir) = None

\* C19: every checkpoint a run writes carries as scraped_count the exact
\* number of rows the output file held when the run started plus the rows
\* scraped in the session.
C19_CountFromExactRows ==
    [][( /\ run.pc = "loop"
         /\ RunRecord(cache_dir') # RunRecord(cache_dir)
         /\ RunRecord(cache_dir') # None )
          => Val(RunRecord(cache_dir')).json.scraped_count =
                (IF files[run.output_path] = None THEN 0
                 ELSE Val(files[run.output_path]).old) + run'.scraped_in_session]_vars

\* ------------------------------------------------- progress sample buffer
\* C28: every progress callback leaves throughput_per_minute and eta_seconds
\* equal to what the estimator yields on the sample buffer the callback left.
C28_MetricsAfterProgress ==
    [][\A w \in Handles :
          ((\E p \in CountPayloads : HandleProgress(w, p)) /\ Target(w) # 0)
              => LET job == heap'[Target(w)]
                 IN  /\ job.throughput_per_minute = UpdateMetrics(job).throughput_per_minute
                     /\ job.eta_seconds = UpdateMetrics(job).eta_seconds]_vars

\* A metrics window shorter than the span of the timestamps runners report.
ShortMetricsWindow == 1

\* Progress payloads with a timestamp of the runner's choosing, in any order.
TimedPayloads ==
    { [NoPayload EXCEPT !.current = c, !.timestamp = ts] :
        c \in {None, Some(1), Some(MaxCount)},
        ts \in {None} \cup {Some(t) : t \in 0..MaxTime} }

InitSamples ==
    /\ RegistryInit
    /\ config = [ServiceConfig EXCEPT !.metrics_window_seconds = ShortMetricsWindow]
    /\ tz \in TzOffsets
    /\ cache_dir = [id \in CacheIds |-> None]
    /\ files = [f \in OutputFiles |-> None]
    /\ run = IdleRun

\* One job is submitted to a service with a short metrics window; its runner
\* reports progress with timestamps in any order while time passes, asks for
\* metrics, then returns.
NextSamples ==
    /\ UNCHANGED <<config, lock, evVars, ckVars, dupVars>>
    /\ \/ Tick
       \/ heap = <<>> /\ StartJob(1, 2)
       \/ \E w \in Handles, p \in TimedPayloads :
             /\ Target(w) # 0 => Len(heap[Target(w)].progress_samples) <= MaxSamples
             /\ HandleProgress(w, p)
       \/ \E w \in Handles : HandleMetrics(w, None)
       \/ \E w \in Handles : WorkerReturn(w, TRUE, None)
       \/ \E w \in Handles : WorkerCleanup(w)

SpecSamples == InitSamples /\ [][NextSamples]_vars

\* C29: after every progress callback every retained sample has a timestamp
\* no older than the metrics window before the timestamp of the newest sample
\* (the one just appended), whatever the order of the timestamps reported.
C29_SamplesWithinWindow ==
    [][\A w \in Handles :
          ((\E p \in TimedPayloads : HandleProgress(w, p)) /\ Target(w) # 0)
              => LET samples == heap'[Target(w)].progress_samples
                 IN  \A i \in 1..Len(samples) :
                        samples[i][1] >= samples[Len(samples)][1] - config.metrics_window_seconds]_vars

\* ------------------------------------------------ submission-time queue
\* A service that admits two submissions per window and two running jobs.
WideRateLimit == 2

InitAdmission ==
    /\ RegistryInit
    /\ config = [ServiceConfig EXCEPT !.rate_limit = WideRateLimit,
                                      !.max_concurrent_jobs = WideRateLimit]
    /\ tz \in TzOffsets
    /\ cache_dir = [id \in CacheIds |-> None]
    /\ files = [f \in OutputFiles |-> None]
    /\ run = IdleRun

\* Callers submit jobs while time passes and workers finish.
NextAdmission ==
    /\ UNCHANGED <<config, lock, evVars, ckVars, dupVars>>
    /\ \/ Tick
       \/ \E id \in JobIds : StartJob(id, 2)
       \/ \E w \in Handles, r \in RunResults : WorkerReturn(w, r[1], r[2])
       \/ \E w \in Handles : WorkerCleanup(w)

SpecAdmission == InitAdmission /\ [][NextAdmission]_vars

\* The submission times of the accepted submissions on hp (every object ever
\* registered stays there, in submission order) that lie within the trailing
\* rate-limit window at time t.
AcceptedTimesWithin(hp, t) ==
    SelectSeq([h \in 1..Len(hp) |-> hp[h].start_time],
              LAMBDA ts : t - ts <= config.rate_limit_window)

\* C27: every start_job call leaves the submission-time queue equal to the
\* submission times of the accepted submissions within the trailing
\* rate-limit window, in submission order; and the queue is never longer
\* than rate_limit.
C27_QueueIsAcceptedWithinWindow ==
    [][/\ (\E id \in JobIds : StartJob(id, 2))
            => job_starts' = AcceptedTimesWithin(heap', now)
       /\ Len(job_starts') <= config.rate_limit]_vars

\* A call was refused by the rate limit while the queue held two submission
\* times, one older than the other, both within the window.
C27_Witness ==
    /\ lastCall.op = "start_job"
    /\ lastCall.message = "Too many scraping jobs started recently"
    /\ Len(job_starts) = 2
    /\ job_starts[1] < job_starts[2]
    /\ now - job_starts[1] <= config.rate_limit_window

\* ------------------------------------------------------- published events
\* Callbacks the runners invoke, all together, in the runs that track events.
MaxCallbacks == 3

RECURSIVE Invoked(_)
\* The number of callbacks the runners of workers 1..n have invoked.
Invoked(n) == IF n = 0 THEN 0 ELSE Len(callbacks[n].invoked) + Invoked(n - 1)

\* datetime.strftime('%Y-%m-%d %H:%M:%S'): the instant as text.
StrfTime(t) == [text |-> t]

\* _build_progress_payload_locked; `job.last_update or time.time()` takes the
\* clock when last_update is 0.
BuildProgressPayload(job, t) ==
    [ job_id |-> job.job_id,
      progress |-> job.progress,
      result_count |-> job.result_count,
      status |-> job.status,
      timestamp |-> IF job.last_update = 0 THEN t ELSE job.last_update,
      error_message |-> job.error_message,
      end_time |-> IF IsSome(job.end_time) THEN Some(StrfTime(Val(job.end_time))) ELSE None ]

\* _build_metrics_payload_locked
BuildMetricsPayload(job) ==
    [ job_id |-> job.job_id,
      throughput_per_minute |-> job.throughput_per_minute,
      eta_seconds |-> job.eta_seconds,
      elapsed_seconds |-> job.elapsed_seconds,
      result_count |-> job.result_count,
      total_results |-> job.total_results ]

\* record_event of _handle_record_batch
BuildRecordEvent(job_id, records, job) ==
    [ job_id |-> job_id,
      records |-> records,
      preview |-> job.recent_records,
      result_count |-> job.result_count ]

\* An event handed to socketio.emit(name, data), with the worker whose thread
\* publishes it and the number of the step of that worker that built it: the
\* k-th callback its runner invoked, or the reconciliation that follows them.
Event(name, data, w, k) == [name |-> name, data |-> data, worker |-> w, call |-> k]

\* The runner of worker w is between two callbacks: its thread has returned
\* from the previous handler, emit included.
BetweenCallbacks(w) ==
    /\ w \in Handles
    /\ callbacks[w].pending = <<>>
    /\ Invoked(MaxJobs) < MaxCallbacks

\* The runner of worker w invokes callbacks.progress(p): the locked block of
\* _handle_progress; the event it built waits to be emitted.
ProgressCallback(w, p) ==
    /\ BetweenCallbacks(w)
    /\ HandleProgress(w, p)
    /\ callbacks' = [callbacks EXCEPT ![w] =
            [invoked |-> Append(@.invoked, "progress"),
             pending |-> IF Target(w) = 0 THEN <<>>
                         ELSE <<Event("job_progress",
                                      BuildProgressPayload(heap'[Target(w)], now),
                                      w, Len(@.invoked) + 1)>>]]
    /\ UNCHANGED emitted

\* callbacks.metrics(payload): the locked block of _handle_metrics.
MetricsCallback(w, elapsed) ==
    /\ BetweenCallbacks(w)
    /\ HandleMetrics(w, elapsed)
    /\ callbacks' = [callbacks EXCEPT ![w] =
            [invoked |-> Append(@.invoked, "metrics"),
             pending |-> IF Target(w) = 0 THEN <<>>
                         ELSE <<Event("job_metrics",
                                      BuildMetricsPayload(heap'[Target(w)]),
                                      w, Len(@.invoked) + 1)>>]]
    /\ UNCHANGED emitted

\* callbacks.record_batch(payload): _handle_record_batch up to the release of
\* the lock; it returns before building an event when the batch is empty or
\* the job is not registered.
RecordBatchCallback(w, records, total_scraped) ==
    /\ BetweenCallbacks(w)
    /\ HandleRecordBatch(w, records, total_scraped)
    /\ callbacks' = [callbacks EXCEPT ![w] =
            [invoked |-> Append(@.invoked, "record_batch"),
             pending |-> IF records = <<>> \/ Target(w) = 0 THEN <<>>
                         ELSE <<Event("job_record_batch",
                                      BuildRecordEvent(heap[w].job_id, records,
                                                       heap'[Target(w)]),
                                      w, Len(@.invoked) + 1)>>]]
    /\ UNCHANGED emitted

\* Variant: the event is put in front of the events already published.
PublishInFront(w) ==
    /\ w \in 1..MaxJobs
    /\ callbacks[w].pending # <<>>
    /\ emitted' = <<Head(callbacks[w].pending)>> \o emitted
    /\ callbacks' = [callbacks EXCEPT ![w].pending = Tail(@)]
    /\ UNCHANGED <<now, tz, jobs, job_starts, heap, pc, lastCall>>

\* self._socketio.emit(name, event), after the lock was released: the thread
\* of worker w publishes the next event it has built.
Publish(w) ==
    /\ w \in 1..MaxJobs
    /\ callbacks[w].pending # <<>>
    /\ emitted' = Append(emitted, Head(callbacks[w].pending))
    /\ callbacks' = [callbacks EXCEPT ![w].pending = Tail(@)]
    /\ UNCHANGED <<now, tz, jobs, job_starts, heap, pc, lastCall>>

\* Variant: the reconciliation builds no event.
RunnerReturnsQuietly(w, success, error) ==
    /\ w \in Handles
    /\ callbacks[w].pending = <<>>
    /\ WorkerReturn(w, success, error)
    /\ UNCHANGED evVars

\* runner.run returns to _run_job: the locked block builds the final
\* job_progress and job_metrics events, emitted in that order afterwards.
RunnerReturns(w, success, error) ==
    /\ w \in Handles
    /\ callbacks[w].pending = <<>>
    /\ WorkerReturn(w, success, error)
    /\ callbacks' = [callbacks EXCEPT ![w].pending =
            << Event("job_progress", BuildProgressPayload(heap'[w], now),
                     w, Len(callbacks[w].invoked) + 1),
               Event("job_metrics", BuildMetricsPayload(heap'[w]),
                     w, Len(callbacks[w].invoked) + 1) >>]
    /\ UNCHANGED emitted

\* The end of _run_job, once both final events are emitted.
CleanupAfterEmits(w) ==
    /\ w \in Handles
    /\ callbacks[w].pending = <<>>
    /\ WorkerCleanup(w)
    /\ UNCHANGED evVars

\* What the runners report in the runs that track events.
ProgressInputs == { [NoPayload EXCEPT !.current = Some(1)] }
\* Record batches: no record, one or two, with any total_scraped hint.
BatchInputs ==
    { <<records, h>> :
        records \in { <<>>, <<[name |-> 1, columns |-> <<"name", "phone">>]>>,
                      <<[name |-> 1, columns |-> <<"name", "phone">>],
                        [name |-> 2, columns |-> <<"name", "phone">>]>> },
        h \in Hints }

\* A service that lets two jobs run at once, in a process on UTC.
InitEvents ==
    /\ InitAdmission
    /\ tz = 0

\* Jobs are submitted under any id to a service that lets two run at once;
\* their runners invoke callbacks and return while the events built are
\* published by the workers' threads in any interleaving.
NextEvents ==
    /\ UNCHANGED <<config, lock, ckVars, dupVars>>
    /\ \/ \E id \in JobIds : StartJob(id, 2) /\ UNCHANGED evVars
       \/ \E w \in Handles, p \in ProgressInputs : ProgressCallback(w, p)
       \/ \E w \in Handles : MetricsCallback(w, None)
       \/ \E w \in Handles :
             RecordBatchCallback(w, <<[name |-> 1, columns |-> <<"name", "phone">>]>>,
                                 Some([int |-> MaxCount]))
       \/ \E w \in Handles : Publish(w)
       \/ \E w \in Handles : RunnerReturns(w, TRUE, None)
       \/ \E w \in Handles : CleanupAfterEmits(w)

SpecEvents == InitEvents /\ [][NextEvents]_vars

\* The events worker w has published, in the order of publication.
PublishedBy(w) == SelectSeq(emitted, LAMBDA e : e.worker = w)

\* C22: the events of a job's worker are published in the order in which the
\* runner invoked the callbacks that built them, and the final job_progress
\* and job_metrics events of the reconciliation, in that order, after all of
\* them, however the workers' steps and the start_job calls interleave.
C22_EventsInCallbackOrder ==
    \A w \in Handles :
        LET mine == PublishedBy(w)
        IN  \A i, j \in 1..Len(mine) :
               i < j =>
                  \/ mine[i].call < mine[j].call
                  \/ /\ mine[i].call = mine[j].call
                     /\ mine[i].call = Len(callbacks[w].invoked) + 1
                     /\ mine[i].name = "job_progress"
                     /\ mine[j].name = "job_metrics"

\* Two workers have published all their events, the first those of two
\* callbacks and the final ones, and an event of the second lies between two
\* events of the first.
C22_Witness ==
    /\ Len(heap) = 2
    /\ \A w \in Handles :
          /\ pc[w] = "reconciled"
          /\ callbacks[w].pending = <<>>
          /\ Len(PublishedBy(w)) >= 3
    /\ Len(PublishedBy(1)) = 4
    /\ \E i, j, k \in 1..Len(emitted) :
          /\ i < j /\ j < k
          /\ emitted[i].worker = 1 /\ emitted[j].worker = 2 /\ emitted[k].worker = 1

\* ------------------------------------------------------- record batches
\* One job is submitted; its runner delivers record batches, empty ones too,
\* with and without a total_scraped hint, then returns.
NextBatches ==
    /\ UNCHANGED <<config, lock, ckVars, dupVars>>
    /\ \/ heap = <<>> /\ StartJob(1, 2) /\ UNCHANGED evVars
       \/ \E w \in Handles, b \in BatchInputs : RecordBatchCallback(w, b[1], b[2])
       \/ \E w \in Handles : Publish(w)
       \/ \E w \in Handles : RunnerReturns(w, TRUE, None)
       \/ \E w \in Handles : CleanupAfterEmits(w)

SpecBatches == InitEvents /\ [][NextBatches]_vars

\* C30: every record-batch callback for a registered job that carries a
\* total_scraped hint n leaves result_count = n, with or without records; and
\* every record-batch callback for a registered job builds one
\* job_record_batch event for publication, whose preview is the preview
\* buffer after the append and whose result_count is the job's count.
C30_RecordBatchHintAndEvent ==
    [][\A w \in Handles, b \in BatchInputs :
          (RecordBatchCallback(w, b[1], b[2]) /\ Target(w) # 0)
              => LET job == heap'[Target(w)]
                 IN  /\ (IsSome(b[2]) /\ IsSome(IntOf(Val(b[2]))))
                            => job.result_count = Val(IntOf(Val(b[2])))
                     /\ Len(callbacks'[w].pending) = 1
                     /\ callbacks'[w].pending[1].name = "job_record_batch"
                     /\ callbacks'[w].pending[1].data.preview = job.recent_records
                     /\ callbacks'[w].pending[1].data.result_count = job.result_count]_vars

\* ------------------------------------------------------ end-to-end scenario
\* The two progress payloads of the scenario, the first stamped T.
FirstProgress(T) ==
    [NoPayload EXCEPT !.progress = Some(10), !.current = Some(10), !.timestamp = Some(T)]
SecondProgress(T) ==
    [NoPayload EXCEPT !.progress = Some(100), !.current = Some(100),
                      !.timestamp = Some(T + 60)]

\* A service built with the default metrics window.
InitScenario ==
    /\ RegistryInit
    /\ config = [ServiceConfig EXCEPT !.metrics_window_seconds = DefaultMetricsWindow]
    /\ tz \in TzOffsets
    /\ cache_dir = [id \in CacheIds |-> None]
    /\ files = [f \in OutputFiles |-> None]
    /\ run = IdleRun

\* Job 1 is submitted with total_results = 100; its runner reports progress
\* twice and returns success.  Meanwhile time passes, the events are
\* published, and other callers read jobs and submit a second job, whose
\* runner returns.
NextScenario ==
    /\ UNCHANGED <<config, lock, ckVars, dupVars>>
    /\ \/ Tick /\ UNCHANGED evVars
       \/ heap = <<>> /\ StartJob(1, 100) /\ UNCHANGED evVars
       \/ \E T \in 0..MaxTime :
             callbacks[1].invoked = <<>> /\ ProgressCallback(1, FirstProgress(T))
       \/ /\ callbacks[1].invoked = <<"progress">>
          /\ ProgressCallback(1, SecondProgress(heap[1].progress_samples[1][1]))
       \/ callbacks[1].invoked = <<"progress", "progress">> /\ RunnerReturns(1, TRUE, None)
       \/ \E w \in Handles : Publish(w)
       \/ \E w \in Handles : CleanupAfterEmits(w)
       \/ heap # <<>> /\ StartJob(2, 2) /\ UNCHANGED evVars
       \/ \E r \in RunResults : RunnerReturns(2, r[1], r[2])
       \/ \E id \in JobIds : GetJob(id) /\ UNCHANGED evVars

SpecScenario == InitScenario /\ [][NextScenario]_vars

\* C23: once the runner of the scenario has returned, job 1 is completed with
\* result_count 100, throughput_per_minute 90.0 and end_time set.
C23_EndToEndFinalState ==
    (Len(heap) >= 1 /\ pc[1] \in {"reconciled", "done"})
        => /\ heap[1].status = "completed"
           /\ heap[1].result_count = 100
           /\ heap[1].throughput_per_minute = <<90, 1>>
           /\ IsSome(heap[1].end_time)

\* The worker of job 1 has finished after progress reports stamped 2 and 62.
C23_Witness ==
    /\ Len(heap) >= 1
    /\ pc[1] = "done"
    /\ heap[1].progress_samples = << <<2, 10>>, <<62, 100>> >>

\* The events published with the id of job 1 under the given name.
PublishedFor(job_id, name) ==
    Len(SelectSeq(emitted, LAMBDA e : e.data.job_id = job_id /\ e.name = name))

\* C24 as stated: when the worker of the scenario is done, exactly two
\* job_progress and exactly two job_metrics events were published for job 1.
C24_TwoProgressTwoMetrics ==
    (Len(heap) >= 1 /\ pc[1] = "done")
        => /\ PublishedFor(1, "job_progress") = 2
           /\ PublishedFor(1, "job_metrics") = 2

\* C24, amended: when the worker of the scenario is done, exactly three
\* job_progress events (one per progress callback and the final one) and
\* exactly one job_metrics event (the final one) were published for job 1.
C24_ThreeProgressOneMetrics ==
    (Len(heap) >= 1 /\ pc[1] = "done")
        => /\ PublishedFor(1, "job_progress") = 3
           /\ PublishedFor(1, "job_metrics") = 1

\* The worker of the scenario is done and the second job's worker has
\* published its final events as well.
C24_Witness ==
    /\ Len(heap) = 2
    /\ pc[1] = "done"
    /\ callbacks[1].invoked = <<"progress", "progress">>
    /\ PublishedFor(2, "job_metrics") = 1

\* -------------------------------------------------------- duplicate check
\* What the duplicate check leaves alone.
jobVars == <<config, now, tz, jobs, job_starts, heap, pc, lastCall, lock, evVars, ckVars>>

\* _check_duplicate_cached_pandas on a file of at most 1 MB whose os.stat
\* succeeds: the verdict cached for the file's size and modification time, or
\* after read_csv nothing for an empty frame, else the tabular verdict, which
\* is cached; (False, 0) when read_csv raises.  Returns the result, the
\* dictionary left and what happened.
CachedPandas(meta, output_file, file, business_type, readable) ==
    LET cache_key == MetadataKey(output_file, file.size, file.mtime, business_type)
        df == ReadCsv(file.content)
        result == TabularScan(df, business_type)
    IN  IF IsSome(meta[cache_key])
        THEN [result |-> Val(meta[cache_key]), meta |-> meta, read |-> FALSE, raised |-> FALSE]
        ELSE IF ~readable
        THEN [result |-> [is_duplicate |-> FALSE, count |-> Some(0)], meta |-> meta,
              read |-> FALSE, raised |-> TRUE]
        ELSE IF df.total_rows = 0
        THEN [result |-> [is_duplicate |-> FALSE, count |-> None], meta |-> meta,
              read |-> TRUE, raised |-> FALSE]
        ELSE [result |-> result, meta |-> [meta EXCEPT ![cache_key] = Some(result)],
              read |-> TRUE, raised |-> FALSE]

\* check_duplicate_file(business_type, areas, output_file); io says which of
\* the call's file operations raise.  dupCall notes the arguments, the result,
\* the layer it came from (source), whether the file was read, and the layers
\* in which an exception was raised and caught.
CheckDuplicateFile(business_type, areas, output_file, io) ==
    LET repeated == /\ dupCall.business_type = business_type
                    /\ dupCall.areas = areas
                    /\ dupCall.output_file = output_file
                    /\ dupCall.unchanged
        call == [NoDupCall EXCEPT !.business_type = business_type, !.areas = areas,
                                  !.output_file = output_file, !.unchanged = TRUE,
                                  !.repeated = repeated]
    IN  /\ IF csv[output_file] = None
           THEN /\ dupCall' = call
                /\ UNCHANGED <<duplicate_cache, content_hash_cache, metadata_cache>>
           ELSE IF ~io.getsize
           THEN /\ dupCall' = [call EXCEPT !.source = "except", !.raised = {"getsize"}]
                /\ UNCHANGED <<duplicate_cache, content_hash_cache, metadata_cache>>
           ELSE IF Val(csv[output_file]).size = 0
           THEN /\ dupCall' = call
                /\ UNCHANGED <<duplicate_cache, content_hash_cache, metadata_cache>>
           ELSE LET file == Val(csv[output_file])
                    cache_key == DuplicateKey(output_file, file.size, business_type)
                    cached_result == LRUGet(duplicate_cache, cache_key)
                IN  IF IsSome(cached_result.value)
                    THEN /\ duplicate_cache' = cached_result.cache
                         /\ dupCall' = [call EXCEPT !.result = Val(cached_result.value),
                                                    !.source = "lru"]
                         /\ UNCHANGED <<content_hash_cache, metadata_cache>>
                    ELSE IF IsSome(content_hash_cache[cache_key])
                    THEN /\ duplicate_cache' = LRUPut(cached_result.cache, cache_key,
                                                     Val(content_hash_cache[cache_key]))
                         /\ dupCall' = [call EXCEPT !.result = Val(content_hash_cache[cache_key]),
                                                    !.source = "fingerprint"]
                         /\ UNCHANGED <<content_hash_cache, metadata_cache>>
                    ELSE IF io.fingerprint
                    THEN LET verdict == Fingerprint(file.size, file.content, business_type)
                         IN  /\ content_hash_cache' =
                                    [content_hash_cache EXCEPT ![cache_key] = Some(verdict)]
                             /\ duplicate_cache' = LRUPut(cached_result.cache, cache_key, verdict)
                             /\ dupCall' = [call EXCEPT !.result = verdict,
                                                        !.source = "fingerprint",
                                                        !.read = TRUE]
                             /\ UNCHANGED metadata_cache
                    ELSE IF file.size > 1024 * 1024
                    THEN /\ dupCall' =
                              IF io.scan
                              THEN [call EXCEPT !.result = StreamingScan(file.content, business_type),
                                                !.source = "streaming", !.read = TRUE,
                                                !.raised = {"fingerprint"}]
                              ELSE [call EXCEPT !.result = [is_duplicate |-> FALSE,
                                                            count |-> Some(0)],
                                                !.source = "streaming",
                                                !.raised = {"fingerprint", "streaming"}]
                         /\ duplicate_cache' = cached_result.cache
                         /\ UNCHANGED <<content_hash_cache, metadata_cache>>
                    ELSE LET scan == CachedPandas(metadata_cache, output_file, file,
                                                  business_type, io.scan)
                         IN  /\ dupCall' = [call EXCEPT
                                    !.result = scan.result, !.source = "pandas",
                                    !.read = scan.read,
                                    !.raised = IF scan.raised THEN {"fingerprint", "pandas"}
                                               ELSE {"fingerprint"}]
                             /\ metadata_cache' = scan.meta
                             /\ duplicate_cache' = cached_result.cache
                             /\ UNCHANGED content_hash_cache
        /\ UNCHANGED <<csv, lruLog, scanCall>>
        /\ UNCHANGED jobVars

\* clear_duplicate_check_caches: the four module-level dictionaries are
\* emptied (check_duplicate_file reads neither _file_signature_cache nor
\* _file_index_cache); _duplicate_cache, the LRUCache, is not among them.
ClearDuplicateCheckCaches ==
    /\ content_hash_cache' = [k \in HashKeys |-> None]
    /\ metadata_cache' = [k \in MetadataKeys |-> None]
    /\ dupCall' = [dupCall EXCEPT !.cleared = TRUE]
    /\ UNCHANGED <<duplicate_cache, csv, lruLog, scanCall>>
    /\ UNCHANGED jobVars

\* A scraping run or the user rewrites an output file: new rows or other
\* rows, of the same size or not, at a modification time not before the
\* file's last one.
FileWritten(output_file, size, mtime, content) ==
    /\ csv[output_file] # None => mtime >= Val(csv[output_file]).mtime
    /\ csv' = [csv EXCEPT ![output_file] =
                  Some([size |-> size, mtime |-> mtime, content |-> content])]
    /\ csv' # csv
    /\ dupCall' = [dupCall EXCEPT !.unchanged = FALSE]
    /\ UNCHANGED <<duplicate_cache, content_hash_cache, metadata_cache, lruLog, scanCall>>
    /\ UNCHANGED jobVars

\* An output file is deleted.
FileRemoved(output_file) ==
    /\ csv[output_file] # None
    /\ csv' = [csv EXCEPT ![output_file] = None]
    /\ dupCall' = [dupCall EXCEPT !.unchanged = FALSE]
    /\ UNCHANGED <<duplicate_cache, content_hash_cache, metadata_cache, lruLog, scanCall>>
    /\ UNCHANGED jobVars

\* The web application has just been started, in a process on UTC.
InitDuplicate ==
    /\ RegistryInit
    /\ config = ServiceConfig
    /\ tz = 0
    /\ cache_dir = [id \in CacheIds |-> None]
    /\ files = [f \in OutputFiles |-> None]
    /\ run = IdleRun

\* Callers check for duplicates while output files are written and deleted.
NextDuplicate ==
    \/ \E t \in BusinessTypes, areas \in AreaLists, f \in DupFiles :
          CheckDuplicateFile(t, areas, f, NoFaults)
    \/ \E f \in DupFiles, n \in {0} \cup FileSizes, c \in Contents :
          FileWritten(f, n, 0, c)
    \/ \E f \in DupFiles : FileRemoved(f)

SpecDuplicate == InitDuplicate /\ [][NextDuplicate]_vars

Verdicts == { [is_duplicate |-> b, count |-> Some(51)] : b \in BOOLEAN }

\* _duplicate_cache.get(key), called directly.  lruLog notes the call, and
\* when each key was last returned or stored.
LRUGetCall(key) ==
    LET got == LRUGet(duplicate_cache, key)
    IN  /\ lruLog.clock < MaxOps
        /\ duplicate_cache' = got.cache
        /\ lruLog' = [lruLog EXCEPT
               !.clock = @ + 1,
               !.accessed = IF IsSome(got.value) THEN [@ EXCEPT ![key] = lruLog.clock + 1] ELSE @,
               !.op = "get", !.key = key, !.evicted = None]
        /\ UNCHANGED <<content_hash_cache, metadata_cache, csv, dupCall, scanCall>>
        /\ UNCHANGED jobVars

\* _duplicate_cache.put(key, value), called directly.  lruLog notes the call,
\* when the key was inserted, and the key that left the dictionary, if any.
LRUPutCall(key, value) ==
    LET after == LRUPut(duplicate_cache, key, value)
        gone == Keys(duplicate_cache) \ Keys(after)
    IN  /\ lruLog.clock < MaxOps
        /\ duplicate_cache' = after
        /\ lruLog' = [lruLog EXCEPT
               !.clock = @ + 1,
               !.accessed = [@ EXCEPT ![key] = lruLog.clock + 1],
               !.inserted = IF key \in Keys(duplicate_cache) THEN @
                            ELSE [@ EXCEPT ![key] = lruLog.clock + 1],
               !.op = "put", !.key = key,
               !.evicted = IF gone = {} THEN None ELSE Some(CHOOSE k \in gone : TRUE)]
        /\ UNCHANGED <<content_hash_cache, metadata_cache, csv, dupCall, scanCall>>
        /\ UNCHANGED jobVars

\* Callers get and put entries of the cache in any order.
NextLRU ==
    \/ \E key \in DupKeys : LRUGetCall(key)
    \/ \E key \in DupKeys, value \in Verdicts : LRUPutCall(key, value)

SpecLRU == InitDuplicate /\ [][NextLRU]_vars

\* The value the dictionary holds for a key.
ValueOf(cache, key) == cache[Lookup(cache, key)].value

\* C26: the cache never holds more than MaxSize entries; a put stores the
\* value under the key and keeps the other values; a put of a new key into a
\* full cache removes exactly one entry, the one whose last get hit or put
\* is the oldest, and any other put removes none; a get changes no key and
\* no value, and a get of an absent key changes nothing.
C26_LeastRecentlyUsedEvicted ==
    [][/\ Len(duplicate_cache') <= MaxSize
       /\ \A key \in DupKeys, value \in Verdicts :
             LRUPutCall(key, value) =>
                LET old == Keys(duplicate_cache)
                    new == Keys(duplicate_cache')
                IN  /\ key \in new
                    /\ ValueOf(duplicate_cache', key) = value
                    /\ \A k \in (old \cap new) \ {key} :
                          ValueOf(duplicate_cache', k) = ValueOf(duplicate_cache, k)
                    /\ (key \notin old /\ Len(duplicate_cache) >= MaxSize)
                          => \E victim \in old :
                                /\ new = (old \ {victim}) \cup {key}
                                /\ \A k \in old :
                                      lruLog.accessed[victim] <= lruLog.accessed[k]
                    /\ (key \in old \/ Len(duplicate_cache) < MaxSize)
                          => new = old \cup {key}
       /\ \A key \in DupKeys :
             LRUGetCall(key) =>
                /\ Keys(duplicate_cache') = Keys(duplicate_cache)
                /\ \A k \in Keys(duplicate_cache) :
                      ValueOf(duplicate_cache', k) = ValueOf(duplicate_cache, k)
                /\ key \notin Keys(duplicate_cache) => duplicate_cache' = duplicate_cache]_vars

\* A put into a full cache has evicted an entry that was inserted after one
\* that stays: the older entry had been promoted since.
C26_Witness ==
    /\ lruLog.op = "put"
    /\ IsSome(lruLog.evicted)
    /\ \E k \in Keys(duplicate_cache) :
          /\ k # lruLog.key
          /\ lruLog.inserted[k] < lruLog.inserted[Val(lruLog.evicted)]

\* ------------------------------------------- rejected and reused start_job
\* C38: a start_job call that raises RateLimitExceeded, for either reason,
\* registers no state, dispatches no worker and records no submission time:
\* the submission times afterwards are the earlier ones still within the
\* window, and a job is gone from the registry only if it had ended.
C38_RejectedStartLeavesRegistry ==
    [][\A id \in JobIds :
          (StartJob(id, 2) /\ lastCall'.raised = "RateLimitExceeded") =>
             /\ heap' = heap
             /\ pc' = pc
             /\ job_starts' = SelectSeq(job_starts,
                    LAMBDA s : now - s <= config.rate_limit_window)
             /\ \A j \in JobIds :
                    \/ jobs'[j] = jobs[j]
                    \/ jobs'[j] = 0 /\ IsSome(heap[jobs[j]].end_time)]_vars

\* A call rejected for the concurrency cap after every earlier submission time
\* has left the window: a job is still registered and running, and the
\* rejected call has left the queue empty.
C38_Witness ==
    /\ lastCall.op = "start_job"
    /\ lastCall.raised = "RateLimitExceeded"
    /\ lastCall.message = "Maximum concurrent scraping jobs in progress"
    /\ job_starts = <<>>
    /\ \E j \in JobIds : jobs[j] # 0 /\ heap[jobs[j]].status = "running"

\* C36: the workers whose runner has not yet returned never outnumber
\* max_concurrent_jobs.
C36_LiveWorkersWithinCap ==
    Cardinality({w \in Handles : pc[w] = "running"}) <= config.max_concurrent_jobs

\* C37: a progress callback of worker w changes no state but the one created
\* by the start_job call that dispatched w.
C37_CallbacksReachOwnState ==
    [][\A w \in Handles, p \in StatusPayloads :
          HandleProgress(w, p) =>
             \A h \in Handles : h # w => heap'[h] = heap[h]]_vars

\* ------------------------------------------------- pairs and their records
\* C39: a checkpoint call for the pair (q, f) touches no other pair's record:
\* load_cache returns only a record saved for (q, f), and save_cache,
\* load_cache and clear_cache leave every record saved for another pair as
\* it was.
C39_PairsHaveOwnRecords ==
    [][\A q \in Queries, f \in OutputFiles :
          /\ LoadCacheCall(q, f) =>
                (lastCall'.result # None =>
                    /\ Val(lastCall'.result).search_query = q
                    /\ Val(lastCall'.result).output_file = f)
          /\ ( \/ LoadCacheCall(q, f)
               \/ ClearCacheCall(q, f)
               \/ \E c \in CheckpointFields : SaveCacheCall(q, f, c[1], c[2], c[3]) )
                => \A id \in CacheIds :
                      ( /\ cache_dir[id] # None
                        /\ Readable(Val(cache_dir[id]))
                        /\ <<Val(cache_dir[id]).json.search_query,
                             Val(cache_dir[id]).json.output_file>> # <<q, f>> )
                         => cache_dir'[id] = cache_dir[id]]_vars

\* ------------------------------------------------ checkpoint and written rows
\* C40: when a run has ended and a checkpoint of its pair is left, every
\* record the run wrote to the output file, in a flush or as a leftover saved
\* by the caller, has a listing index no greater than the checkpoint's
\* last_scraped_index.
C40_WrittenWithinCheckpoint ==
    ( /\ \/ run.pc = "exited"
         \/ run.pc = "returned" /\ run.caller = "scrape_places"
      /\ RunRecord(cache_dir) # None
      /\ Readable(Val(RunRecord(cache_dir))) )
        => run.written_upto <= Val(RunRecord(cache_dir)).json.last_scraped_index

\* ------------------------------------------- duplicate check, failing reads
\* The non-empty files written: small ones of any content, and large ones.
WrittenFiles ==
    { <<1200, c>> : c \in Contents \cup PlainContents }
        \cup { <<LargeFileSize, c>> : c \in LargeContents }

\* Callers check for duplicates and clear the caches while output files are
\* written and deleted; any file operation of a check may raise.
NextScans ==
    \/ \E f \in DupFiles, io \in IoOutcomes :
          CheckDuplicateFile(<<"C", "a">>, <<>>, f, io)
    \/ \E f \in DupFiles, w \in WrittenFiles, m \in Mtimes : FileWritten(f, w[1], m, w[2])
    \/ \E f \in DupFiles, c \in PlainContents : FileWritten(f, 0, 0, c)
    \/ \E f \in DupFiles : FileRemoved(f)
    \/ ClearDuplicateCheckCaches

SpecScans == InitDuplicate /\ [][NextScans]_vars

\* C32: check_duplicate_file on a missing or empty file returns (False,
\* None); a hit in the LRU cache is returned without any other layer being
\* consulted; when the fingerprint layer is undetermined the result is the
\* streaming scan's for a file over 1 MB and the tabular scan's otherwise;
\* and when an exception is raised anywhere else the call returns (False,
\* None).
C32_NeverUndetermined ==
    [][\A t \in BusinessTypes, f \in DupFiles, io \in IoOutcomes :
          CheckDuplicateFile(t, <<>>, f, io) =>
             LET missing == csv[f] = None
                 file == Val(csv[f])
                 nothing == [is_duplicate |-> FALSE, count |-> None]
             IN  /\ dupCall'.result.is_duplicate \in BOOLEAN
                 /\ missing => dupCall'.result = nothing
                 /\ (~missing /\ file.size = 0) => dupCall'.result = nothing
                 /\ ( /\ ~missing /\ file.size > 0 /\ dupCall'.raised = {}
                      /\ DuplicateKey(f, file.size, t) \in Keys(duplicate_cache) )
                       => /\ dupCall'.source = "lru"
                          /\ ~dupCall'.read
                          /\ content_hash_cache' = content_hash_cache
                          /\ metadata_cache' = metadata_cache
                 /\ "fingerprint" \in dupCall'.raised
                       => dupCall'.source = IF file.size > 1024 * 1024
                                            THEN "streaming" ELSE "pandas"
                 /\ dupCall'.raised \ {"fingerprint"} # {}
                       => dupCall'.result = nothing]_vars

\* C32, amended: as above, except that only an exception raised in
\* check_duplicate_file itself yields (False, None); one raised inside the
\* streaming or the tabular scan yields (False, 0).  None propagates.
C32_ErrorsYieldNotDuplicate ==
    [][\A t \in BusinessTypes, f \in DupFiles, io \in IoOutcomes :
          CheckDuplicateFile(t, <<>>, f, io) =>
             LET missing == csv[f] = None
                 file == Val(csv[f])
                 nothing == [is_duplicate |-> FALSE, count |-> None]
             IN  /\ dupCall'.result.is_duplicate \in BOOLEAN
                 /\ missing => dupCall'.result = nothing
                 /\ (~missing /\ file.size = 0) => dupCall'.result = nothing
                 /\ ( /\ ~missing /\ file.size > 0 /\ dupCall'.raised = {}
                      /\ DuplicateKey(f, file.size, t) \in Keys(duplicate_cache) )
                       => /\ dupCall'.source = "lru"
                          /\ ~dupCall'.read
                          /\ content_hash_cache' = content_hash_cache
                          /\ metadata_cache' = metadata_cache
                 /\ "fingerprint" \in dupCall'.raised
                       => dupCall'.source = IF file.size > 1024 * 1024
                                            THEN "streaming" ELSE "pandas"
                 /\ dupCall'.raised = {"getsize"} => dupCall'.result = nothing
                 /\ dupCall'.raised \ {"fingerprint", "getsize"} # {}
                       => dupCall'.result = [is_duplicate |-> FALSE, count |-> Some(0)]]_vars

\* The fingerprint layer could not open a small file and the tabular scan
\* could not read it: the call has returned (False, 0).
C32_Witness ==
    /\ dupCall.raised = {"fingerprint", "pandas"}
    /\ dupCall.source = "pandas"
    /\ dupCall.result = [is_duplicate |-> FALSE, count |-> Some(0)]

\* C35: the check_duplicate_file call that follows
\* clear_duplicate_check_caches, on a non-empty file that can be read, takes
\* its verdict from the file's content and from no cache.
C35_NothingSurvivesClear ==
    [][\A t \in BusinessTypes, f \in DupFiles :
          ( /\ CheckDuplicateFile(t, <<>>, f, NoFaults)
            /\ dupCall.cleared
            /\ csv[f] # None /\ Val(csv[f]).size > 0 )
              => /\ dupCall'.read
                 /\ dupCall'.source # "lru"]_vars

\* ------------------------------------------------- the scan layers alone
\* The process in which one scan layer is about to be called on its own.
ScanInit ==
    /\ CachesInit
    /\ ServiceInit
    /\ config = ServiceConfig
    /\ tz = 0
    /\ cache_dir = [id \in CacheIds |-> None]
    /\ files = [f \in OutputFiles |-> None]
    /\ run = IdleRun

\* Most newlines of a header sample and most occurrences of the business type
\* in the samples.
MaxNewlines == 52
MaxOccurrences == 5

\* File sizes in bytes: below, at and above the least sample size, above
\* 1 MB, and large enough for the greatest sample size.
FingerprintSizes == { 1, 600, 1024, 1200, 2400, LargeFileSize, 9000000 }

\* The files and business types the fingerprint layer is called with: no
\* more newlines than the header sample has bytes.
FingerprintInputs ==
    { [ file_size |-> n, business_type |-> t,
        content |-> Content(nl, <<occ, 0>>, 0, TRUE, <<0, 0>>, 0) ] :
          n \in FingerprintSizes, t \in {<<"C", "a">>, <<"b">>},
          nl \in 0..MaxNewlines, occ \in 0..MaxOccurrences }

InitFingerprint ==
    /\ ScanInit
    /\ \E i \in FingerprintInputs :
          /\ i.content.newline_count <= i.file_size
          /\ scanCall = [NoScanCall EXCEPT !.layer = "fingerprint", !.input = i]

\* _check_content_fingerprint computes a verdict for its input.
FingerprintCall ==
    /\ scanCall.layer = "fingerprint"
    /\ ~scanCall.called
    /\ scanCall' = [scanCall EXCEPT
          !.called = TRUE,
          !.result = Fingerprint(scanCall.input.file_size, scanCall.input.content,
                                 scanCall.input.business_type)]
    /\ UNCHANGED <<duplicate_cache, content_hash_cache, metadata_cache, csv, dupCall, lruLog>>
    /\ UNCHANGED jobVars

NextFingerprint == FingerprintCall

SpecFingerprint == InitFingerprint /\ [][NextFingerprint]_vars

\* The number of bytes of the header sample of a file of n bytes.
HeaderLength(n) ==
    IF n < 1024 THEN n
    ELSE IF n < 1025000 THEN 1024
    ELSE IF n < 8192000 THEN n \div 1000
    ELSE 8192

\* C33: the fingerprint layer returns duplicate exactly when the lower-cased
\* business type occurs more than 3 times in the samples and the estimated
\* row count is over 50; the count returned is the estimate: the newlines per
\* byte of the header sample times the file size, rounded down, and at least
\* 1.
C33_FingerprintVerdict ==
    scanCall.layer = "fingerprint" /\ scanCall.called =>
        LET i == scanCall.input
            occ == i.content.occurrences[Lower(i.business_type)]
            len == HeaderLength(i.file_size)
            est == Val(scanCall.result.count)
        IN  /\ scanCall.result.count # None
            /\ est >= 1
            /\ \/ est = 1 /\ i.file_size * i.content.newline_count < 2 * len
               \/ /\ est * len <= i.file_size * i.content.newline_count
                  /\ i.file_size * i.content.newline_count < (est + 1) * len
            /\ scanCall.result.is_duplicate <=> (occ > 3 /\ est > 50)

\* A file judged duplicate with exactly 4 occurrences and an estimate of 51
\* rows, the business type given in upper case.
C33_Witness ==
    /\ scanCall.layer = "fingerprint"
    /\ scanCall.called
    /\ scanCall.input.business_type = <<"C", "a">>
    /\ scanCall.input.content.occurrences[<<"c", "a">>] = 4
    /\ scanCall.result = [is_duplicate |-> TRUE, count |-> Some(51)]

\* Most rows of a frame and most matching rows.
MaxRows == 201
MaxMatches == 31

\* The frames the tabular scan is called with: read_csv gave at least one
\* row, and no more rows match than there are.
TabularInputs ==
    { [ business_type |-> <<"C", "a">>,
        df |-> [ total_rows |-> n, text_columns |-> b,
                 matches |-> [t \in LoweredTypes |-> IF t = <<"c", "a">> THEN m ELSE 0] ] ] :
          n \in 1..MaxRows, b \in BOOLEAN, m \in 0..MaxMatches }

InitTabular ==
    /\ ScanInit
    /\ \E i \in TabularInputs :
          /\ i.df.matches[<<"c", "a">>] <= i.df.total_rows
          /\ scanCall = [NoScanCall EXCEPT !.layer = "tabular", !.input = i]

\* _check_duplicate_in_dataframe_optimized computes a verdict for its input.
TabularCall ==
    /\ scanCall.layer = "tabular"
    /\ ~scanCall.called
    /\ scanCall' = [scanCall EXCEPT
          !.called = TRUE,
          !.result = TabularScan(scanCall.input.df, scanCall.input.business_type)]
    /\ UNCHANGED <<duplicate_cache, content_hash_cache, metadata_cache, csv, dupCall, lruLog>>
    /\ UNCHANGED jobVars

NextTabular == TabularCall

SpecTabular == InitTabular /\ [][NextTabular]_vars

\* C34: the tabular scan returns the row count, and duplicate exactly when
\* the frame has a searched text column, more than 5 rows match and the
\* matching rows are more than 3/10 of fewer than 50 rows, more than 3/20 of
\* fewer than 200 rows, more than 2/25 of 200 rows or more.
C34_TabularVerdict ==
    scanCall.layer = "tabular" /\ scanCall.called =>
        LET df == scanCall.input.df
            m == df.matches[Lower(scanCall.input.business_type)]
            n == df.total_rows
        IN  /\ scanCall.result.count = Some(n)
            /\ ~df.text_columns => ~scanCall.result.is_duplicate
            /\ df.text_columns =>
                  ( scanCall.result.is_duplicate <=>
                      /\ m > 5
                      /\ \/ n < 50 /\ 10 * m > 3 * n
                         \/ n >= 50 /\ n < 200 /\ 20 * m > 3 * n
                         \/ n >= 200 /\ 25 * m > 2 * n )

\* A frame of 200 rows judged duplicate with 17 matching rows, one more than
\* 8 %.
C34_Witness ==
    /\ scanCall.layer = "tabular"
    /\ scanCall.called
    /\ scanCall.input.df.total_rows = 200
    /\ scanCall.input.df.matches[<<"c", "a">>] = 17
    /\ scanCall.result = [is_duplicate |-> TRUE, count |-> Some(200)]

\* ------------------------------------------------------ the registry lock
\* The thread that calls start_job; worker w's thread is w.
Caller == MaxJobs + 1

\* Variant: the handler emits inside its `with self._lock:` block.
HeldAtEmit(w) == w

\* The holder of self._lock when the thread of worker w has built its events
\* and goes on to emit them: the block has been left.
LockAtEmit(w) == 0

\* The thread of worker w has something to do under the lock: a handler
\* called by its runner, the reconciliation, or the final cleanup.
WantsLock(w) ==
    /\ w \in Handles
    /\ callbacks[w].pending = <<>>
    /\ pc[w] \in {"running", "reconciled"}

\* `with self._lock:` is entered by thread t, which waits while the lock is
\* held.
AcquireLock(t) ==
    /\ lock = 0
    /\ t = Caller \/ WantsLock(t)
    /\ lock' = t
    /\ UNCHANGED <<now, tz, jobs, job_starts, heap, pc, lastCall, evVars>>

\* The block of start_job, run by the thread that holds the lock.
StartJobLocked(job_id, total_results) ==
    /\ lock = Caller
    /\ StartJob(job_id, total_results)
    /\ lock' = 0
    /\ UNCHANGED evVars

\* The block of _handle_progress.
ProgressLocked(w, p) ==
    /\ lock = w
    /\ ProgressCallback(w, p)
    /\ lock' = LockAtEmit(w)

\* The block of _handle_record_batch.
RecordBatchLocked(w, records, total_scraped) ==
    /\ lock = w
    /\ RecordBatchCallback(w, records, total_scraped)
    /\ lock' = LockAtEmit(w)

\* The block of _run_job after runner.run has returned.
ReconcileLocked(w, success, error) ==
    /\ lock = w
    /\ RunnerReturns(w, success, error)
    /\ lock' = LockAtEmit(w)

\* The block of _cleanup_finished_jobs at the end of _run_job.
CleanupLocked(w) ==
    /\ lock = w
    /\ CleanupAfterEmits(w)
    /\ lock' = 0

\* self._socketio.emit, which takes no lock.
Emit(w) ==
    /\ Publish(w)
    /\ UNCHANGED lock

\* Threads take the lock for one block each; the events are published by the
\* workers' threads at any time after their block.
NextLock ==
    /\ UNCHANGED <<config, ckVars, dupVars>>
    /\ \/ \E t \in Handles \cup {Caller} : AcquireLock(t)
       \/ \E id \in JobIds : StartJobLocked(id, 2)
       \/ \E w \in Handles, p \in ProgressInputs : ProgressLocked(w, p)
       \/ \E w \in Handles :
             RecordBatchLocked(w, <<[name |-> 1, columns |-> <<"name", "phone">>]>>,
                               Some([int |-> MaxCount]))
       \/ \E w \in Handles : ReconcileLocked(w, TRUE, None)
       \/ \E w \in Handles : CleanupLocked(w)
       \/ \E w \in Handles : Emit(w)

SpecLock == InitEvents /\ [][NextLock]_vars

\* C31: the job map, the submission-time queue and the job states change
\* only in steps of a thread that holds the lock; a thread that publishes an
\* event, or has one left to publish, does not hold the lock; and while a
\* worker waits inside emit the caller of start_job and the other workers
\* can take the free lock and the caller can complete its block.
C31_WritesLockedEmitsUnlocked ==
    [][/\ (jobs' # jobs \/ job_starts' # job_starts \/ heap' # heap) => lock # 0
       /\ \A w \in Handles :
             /\ Emit(w) => lock # w
             /\ callbacks[w].pending # <<>> =>
                   /\ lock # w
                   /\ lock = 0 => ENABLED AcquireLock(Caller)
                   /\ lock = Caller => ENABLED (\E id \in JobIds : StartJobLocked(id, 2))
                   /\ \A v \in Handles \ {w} :
                         (lock = 0 /\ WantsLock(v)) => ENABLED AcquireLock(v)]_vars

\* Worker 1 is inside emit with its first event, nothing has been published,
\* and the thread of worker 2 holds the lock.
C31_Witness ==
    /\ Len(heap) = 2
    /\ callbacks[1].pending # <<>>
    /\ emitted = <<>>
    /\ lock = 2

====
